---- MODULE Spec2Model ----
\* Model of the dependency-aware, single-flight content cache of dpup/dbps
\* (package cache: Cache.Get, Cache.Invalidate, Cache.fetch) together with the
\* read-through fetchers that the album and the cache tests register on it,
\* and of the album that synchronizes its catalog with the remote folder
\* (Album.Load, Album.loadExifInfo) and serves it (Album.Photos, Album.Photo,
\* Album.Thumbnail, Album.FirstPhoto).
EXTENDS Integers, Sequences, FiniteSets, TLC

\* ---------------------------------------------------------------------------
\* Bounds of the model
\* ---------------------------------------------------------------------------

\* Number of cacheEntry objects that can be live (reachable from the map or
\* from a goroutine) at the same time.
MaxEntries == 6

\* Number of distinct byte blobs the remote download can return.
MaxData == 2

\* Get is called while Cache.cacheSize exceeds the bytes resident in the map
\* by less than this.
MaxDrift == 2

\* Number of revisions the remote folder goes through.
MaxRev == 2

\* Number of photoList backing arrays that can be live at the same time.
MaxLists == 4

\* Number of runs in a row that the loop of Monitor sees fail.
MaxFails == 30

\* ---------------------------------------------------------------------------
\* Cache keys, their declared dependencies, and the callers
\* ---------------------------------------------------------------------------

KeyOrder == <<"A", "B", "C">>
Keys == {KeyOrder[i] : i \in 1 .. Len(KeyOrder)}

ProcOrder == <<"p1", "p2", "p3">>
Procs == {ProcOrder[i] : i \in 1 .. Len(ProcOrder)}

\* The configurations a run is played in: the keys in use with the
\* CacheKey.Dependencies() of each, and the goroutines calling into the
\* cache. "A" is an original (no dependencies) and "B" is derived from "A" in
\* all of them. Racing: two goroutines on the original and its thumbnail.
\* Chain: "C" is derived from "B" (three levels). Fork: "C" is a second
\* thumbnail of "A". Apart: "C" is an unrelated original. Beside (played on
\* its own): two goroutines on the unrelated originals "A" and "C".
Racing == [keys |-> {"A", "B"}, procs |-> {"p1", "p2"},
           deps |-> [k \in Keys |-> IF k = "B" THEN {"A"} ELSE {}]]
Chain  == [keys |-> Keys, procs |-> {"p1"},
           deps |-> [k \in Keys |-> CASE k = "B" -> {"A"} [] k = "C" -> {"B"} [] OTHER -> {}]]
Fork   == [keys |-> Keys, procs |-> {"p1"},
           deps |-> [k \in Keys |-> CASE k = "B" -> {"A"} [] k = "C" -> {"A"} [] OTHER -> {}]]
Apart  == [keys |-> Keys, procs |-> {"p1"},
           deps |-> [k \in Keys |-> IF k = "B" THEN {"A"} ELSE {}]]

Beside == [keys |-> {"A", "C"}, procs |-> {"p1", "p2"},
           deps |-> [k \in Keys |-> IF k = "B" THEN {"A"} ELSE {}]]

Worlds == {Racing, Chain, Fork, Apart}

Data == 1 .. MaxData

\* len(bytes): a blob is identified by a number, the empty slice is 0, and
\* blobs come in two lengths.
Len8(b) == IF b = 0 THEN 0 ELSE 2 - (b % 2)

\* Resize: the derived blob is determined by the source blob and differs from
\* every downloaded blob.
Resized(b) == b + MaxData

\* ---------------------------------------------------------------------------
\* State
\* ---------------------------------------------------------------------------

VARIABLES
  world,       \* the keys, Dependencies() and goroutines of this run (fixed)
  fetchers,    \* Cache.fetchers: the key types a fetcher is registered for
  mon,         \* the goroutine NewPhotoSite starts: the first Load, then the
               \* loop of Monitor with its interval c
  cache,       \* Cache.cache: key -> entry id, 0 when the key has no entry
  entries,     \* the cacheEntry objects, by id
  cacheSize,   \* Cache.cacheSize
  cacheLock,   \* Cache.cacheLock: "" when free, else the holder
  stack,       \* per goroutine: the frames of its calls into the cache
  ret,         \* per goroutine: what its last finished call returned
  good,        \* history, per key: the bytes a Get returned without error
               \* since the key was last invalidated, 0 if none
  remote,      \* the remote folder: its revision and the listing of each file
  lastHash,    \* Album.lastHash
  photoList,   \* Album.photoList: the backing array it refers to, 0 for nil
  photoMap,    \* Album.photoMap: name -> Photo, for the names it has
  loading,     \* Album.loading
  mu,          \* Album.mu: "" when free, else the Load holding it for writing
  lists,       \* the backing arrays of the photoList slices, by id
  ld,          \* per caller of Load: its position and locals
  job,         \* per goroutine: the loadExifInfo it runs, if any
  rd,          \* per reader: what its last catalog lookup returned
  held         \* per reader: the slice its last Photos() returned, 0 if none

albumVars == <<remote, lastHash, photoList, photoMap, loading, mu, lists, ld,
               job, rd, held>>

vars == <<world, fetchers, mon, cache, entries, cacheSize, cacheLock, stack, ret, good,
          remote, lastHash, photoList, photoMap, loading, mu, lists, ld,
          job, rd, held>>

Ids == 1 .. MaxEntries

\* An id no cacheEntry uses.
\* old is history: the fetch filling the entry had started when a
\* synchronization run invalidated the item of its key.
Free == [key |-> "", done |-> FALSE, bytes |-> 0, err |-> FALSE, old |-> FALSE]

NoSub == [has |-> FALSE, bytes |-> 0, err |-> FALSE]

\* The types of the keys: A and C are keys of one type without dependencies
\* (originalCacheKey, or original of the tests), and a key with dependencies
\* is of the type of the keys derived from it (thumbCacheKey, derived).
Types == {"original", "derived", "derived2"}

\* What reflect tells of a value handed to RegisterFetcher: its kind, the
\* types of its arguments and the types of its results.
NoShape == [kind |-> "", ins |-> <<>>, outs |-> <<>>]

Shapes ==
  {[kind |-> "func", ins |-> <<"original">>, outs |-> <<"[]byte", "error">>],
   [kind |-> "func", ins |-> <<"derived">>, outs |-> <<"[]byte", "error">>],
   [kind |-> "int", ins |-> <<>>, outs |-> <<>>],
   [kind |-> "func", ins |-> <<>>, outs |-> <<"[]byte", "error">>],
   [kind |-> "func", ins |-> <<"original", "original">>, outs |-> <<"[]byte", "error">>],
   [kind |-> "func", ins |-> <<"original">>, outs |-> <<"int", "error">>],
   [kind |-> "func", ins |-> <<"original">>, outs |-> <<"[]byte", "int">>],
   [kind |-> "func", ins |-> <<"original">>, outs |-> <<>>],
   [kind |-> "func", ins |-> <<"original">>, outs |-> <<"[]byte">>],
   [kind |-> "func", ins |-> <<"derived">>, outs |-> <<"[]byte", "error", "int">>]}

NoRet == [op |-> "none", key |-> "", bytes |-> 0, err |-> FALSE, hit |-> FALSE,
          peer |-> "none", fetched |-> {}, removed |-> {}, shape |-> NoShape]

\* The files of the remote folder, and the callers of Album.Load (the Monitor
\* goroutine and the start-up call).
NameOrder == <<"a", "c">>
Names == {NameOrder[i] : i \in 1 .. Len(NameOrder)}

LoaderOrder == <<"l1", "l2">>
Loaders == {LoaderOrder[i] : i \in 1 .. Len(LoaderOrder)}

ListIds == 1 .. MaxLists

\* What the remote listing says of a file: e.Bytes, e.ClientMtime, e.Modified.
Stats == {[Bytes |-> 1, ClientMtime |-> 1, Modified |-> 2],
          [Bytes |-> 2, ClientMtime |-> 1, Modified |-> 2],
          [Bytes |-> 1, ClientMtime |-> 2, Modified |-> 3]}

\* What the listing says of every file at the start.
FirstStat == [Bytes |-> 1, ClientMtime |-> 1, Modified |-> 2]

\* A name the folder does not list.
NoFile == [Bytes |-> 0, ClientMtime |-> 0, Modified |-> 0]

\* Photo{}, the zero value.
NoPhoto == [Filename |-> "", Size |-> 0, Hash |-> <<>>, DropboxModified |-> 0,
            ExifCreated |-> 0]

\* Metadata's answer: the folder's hash, whether the path is a directory, and
\* its contents in listing order.
NoEntry == [Hash |-> 0, IsDir |-> TRUE, Contents |-> <<>>]

\* dirty, how, was and path are history: the names this run treated as
\* changed, how the loadExifInfo of each ended ("time", "notime" or "error",
\* "" while it has not), the name index the run found when it began to
\* publish, and the way it took ("304", "full" or "").
NoLoad == [pc |-> "idle", entry |-> NoEntry, i |-> 0, photos |-> 0, wg |-> 0,
           dirty |-> {}, how |-> [n \in Names |-> ""],
           was |-> [n \in Names |-> NoPhoto], res |-> "none", path |-> ""]

NoJob == [loader |-> "", i |-> 0, pc |-> "none"]

NoRead == [op |-> "none", name |-> "", photo |-> NoPhoto, found |-> FALSE]

\* No goroutine of NewPhotoSite.
NoMon == [pc |-> "off", interval |-> <<>>, c |-> <<>>, fails |-> 0, first |-> "none"]

\* NewAlbum: no catalog, no hash, nothing loading.
NewAlbum ==
  /\ lastHash = 0
  /\ photoList = 0
  /\ photoMap = [n \in Names |-> NoPhoto]
  /\ loading = FALSE
  /\ mu = ""
  /\ lists = [i \in ListIds |-> <<>>]
  /\ ld = [l \in Loaders |-> NoLoad]
  /\ job = [p \in Procs |-> NoJob]
  /\ rd = [p \in Procs |-> NoRead]
  /\ held = [p \in Procs |-> 0]

\* cache.New
NewCache ==
  /\ cache = [k \in Keys |-> 0]
  /\ entries = [e \in Ids |-> Free]
  /\ cacheSize = 0
  /\ cacheLock = ""
  /\ stack = [p \in Procs |-> <<>>]
  /\ ret = [p \in Procs |-> NoRet]
  /\ good = [k \in Keys |-> 0]

\* The fetchers are registered (NewAlbum, and the set-up of the tests).
Init ==
  /\ world \in Worlds
  /\ fetchers = Types
  /\ mon = NoMon
  /\ NewCache
  /\ NewAlbum
  /\ remote = [hash |-> 1, dir |-> TRUE, files |-> [n \in Names |-> NoFile]]

deps == world.deps

\* reflect.ValueOf(key).Type()
TypeOf(k) ==
  IF deps[k] = {} THEN "original"
  ELSE IF \A d \in deps[k] : deps[d] = {} THEN "derived" ELSE "derived2"

\* The key a derived fetcher reads through the cache (fetchThumbnail reads the
\* original it depends on).
Source(k) == CHOOSE d \in deps[k] : TRUE

\* k together with everything it is fetched from.
RECURSIVE Upstream(_)
Upstream(k) == {k} \cup UNION {Upstream(d) : d \in deps[k]}

\* K together with every key that depends on K, directly or transitively.
Downstream(K) == {k \in world.keys : K \in Upstream(k)}

\* ---------------------------------------------------------------------------
\* Frames
\* ---------------------------------------------------------------------------

Active(p) == Len(stack[p]) > 0
Top(p) == stack[p][Len(stack[p])]
At(p, op, pc) == Active(p) /\ Top(p).op = op /\ Top(p).pc = pc

SetTop(p, f) == [stack EXCEPT ![p] = [@ EXCEPT ![Len(@)] = f]]
Push(p, f, g) == [stack EXCEPT ![p] = Append([@ EXCEPT ![Len(@)] = f], g)]

\* The entry the map holds for k, if its fetch already ended in an error.
StaleEntry(k) ==
  IF cache[k] # 0 /\ entries[cache[k]].done /\ entries[cache[k]].err
  THEN cache[k] ELSE 0

\* The pcs of a Get that has not looked its key up yet, and of one that is
\* (or is about to be) running the fetcher or storing its result.
Arriving == {"lock", "lookup"}
Producing == {"fetch", "fetching", "commit", "evict"}

Frames == {<<p, i>> \in Procs \X (1 .. Len(KeyOrder)) : i <= Len(stack[p])}

\* History of a Get on k: "fetching" when the call overlaps another Get that
\* produces the entry the map holds for k.
PeerAt(k) ==
  IF \E x \in Frames : LET g == stack[x[1]][x[2]]
                        IN g.op = "Get" /\ g.key = k /\ g.pc \in Producing
                           /\ g.entry = cache[k]
  THEN "fetching" ELSE "none"

\* Stacks st with the peer of every Get on a key of ks that has not yet looked
\* it up changed from one of from to v.
SetPeers(st, ks, from, v) ==
  [p \in Procs |->
     [i \in 1 .. Len(st[p]) |->
        IF /\ st[p][i].op = "Get" /\ st[p][i].key \in ks
           /\ st[p][i].pc \in Arriving /\ st[p][i].peer \in from
        THEN [st[p][i] EXCEPT !.peer = v] ELSE st[p][i]]]

GetFrame(k) ==
  [op |-> "Get", key |-> k, pc |-> "lock", entry |-> 0, stale |-> StaleEntry(k),
   peer |-> PeerAt(k), fetched |-> {}, sub |-> NoSub]

InvalidateFrame(k) ==
  [op |-> "Invalidate", key |-> k, pc |-> "lock", entry |-> 0, stale |-> 0,
   peer |-> "none", fetched |-> {}, sub |-> NoSub]

\* Entries a call may still allocate: one per key it reads through.
Need(k) == Cardinality(Upstream(k))

Remaining(p) ==
  IF ~Active(p) \/ Top(p).op # "Get" THEN 0
  ELSE IF Top(p).pc \in {"lock", "lookup"} THEN Need(Top(p).key)
  ELSE IF Top(p).pc = "fetch" THEN Need(Top(p).key) - 1
  ELSE 0

RECURSIVE SumRemaining(_)
SumRemaining(S) ==
  IF S = {} THEN 0
  ELSE LET q == CHOOSE x \in S : TRUE IN Remaining(q) + SumRemaining(S \ {q})

FreeIds == {e \in Ids : entries[e] = Free}

\* entry := &cacheEntry{}
NewId == CHOOSE e \in FreeIds : TRUE

\* The pointers held by map c and stacks st, in a fixed order of the places
\* that hold them.
RECURSIVE FrameRefs(_, _), StackRefs(_, _), MapRefs(_, _)
FrameRefs(fs, i) ==
  IF i > Len(fs) THEN <<>> ELSE <<fs[i].entry, fs[i].stale>> \o FrameRefs(fs, i + 1)
StackRefs(st, i) ==
  IF i > Len(ProcOrder) THEN <<>> ELSE FrameRefs(st[ProcOrder[i]], 1) \o StackRefs(st, i + 1)
MapRefs(c, i) ==
  IF i > Len(KeyOrder) THEN <<>> ELSE <<c[KeyOrder[i]]>> \o MapRefs(c, i + 1)

RECURSIVE Uniq(_, _)
Uniq(s, seen) ==
  IF s = <<>> THEN <<>>
  ELSE IF Head(s) = 0 \/ Head(s) \in seen THEN Uniq(Tail(s), seen)
  ELSE <<Head(s)>> \o Uniq(Tail(s), seen \cup {Head(s)})

\* A pointer has no meaning but the object it leads to: the cacheEntry objects
\* reachable from map c or stacks st are numbered in the order of the places
\* that hold them, and the unreachable ones are garbage.
Canon(c, st, en) ==
  LET live == Uniq(MapRefs(c, 1) \o StackRefs(st, 1), {})
      rn(i) == IF i = 0 THEN 0 ELSE CHOOSE j \in 1 .. Len(live) : live[j] = i
  IN [cache   |-> [k \in Keys |-> rn(c[k])],
      entries |-> [j \in Ids |-> IF j <= Len(live) THEN en[live[j]] ELSE Free],
      stack   |-> [p \in Procs |->
                     [i \in 1 .. Len(st[p]) |->
                        [st[p][i] EXCEPT !.entry = rn(@), !.stale = rn(@)]]]]

\* The step leaves map c, stacks st and entry objects en.
Install(c, st, en) ==
  LET n == Canon(c, st, en)
  IN /\ cache' = n.cache
     /\ stack' = n.stack
     /\ entries' = n.entries

\* Stacks after the top frame f of p (a Get) returned the values of entry e;
\* the caller, if any, is the fetcher of a derived key waiting for them.
ReturnGet(p, f, e) ==
  IF Len(stack[p]) = 1 THEN [stack EXCEPT ![p] = <<>>]
  ELSE LET n == Len(stack[p]) - 1
           caller == stack[p][n]
       IN [stack EXCEPT ![p] =
             [SubSeq(stack[p], 1, n) EXCEPT
                ![n] = [caller EXCEPT !.sub = [has |-> TRUE, bytes |-> entries[e].bytes,
                                                err |-> entries[e].err],
                                      !.fetched = @ \cup f.fetched]]]

\* What the caller of p's outermost Get holds once frame f returned.
ReturnedGet(p, f, e, hit) ==
  IF Len(stack[p]) = 1
  THEN [ret EXCEPT ![p] = [NoRet EXCEPT !.op = "Get", !.key = f.key,
                                        !.bytes = entries[e].bytes,
                                        !.err = entries[e].err, !.hit = hit,
                                        !.peer = f.peer, !.fetched = f.fetched]]
  ELSE ret

\* good after a Get on k returned the values of entry e.
Succeeded(k, e) ==
  IF ~entries[e].err /\ cache[k] = e /\ good[k] = 0
  THEN [good EXCEPT ![k] = entries[e].bytes] ELSE good

\* ---------------------------------------------------------------------------
\* Cache.invalidate / Cache.invalidateDependents
\* ---------------------------------------------------------------------------

\* st = [cache, size, removed]: the map, the size counter and (history) the
\* keys whose entry this call deleted.
RECURSIVE invalidate(_, _), invalidateDependents(_, _, _)

\* invalidate without the call of invalidateDependents.
invalidate_NoCascade(st, key) ==
  IF st.cache[key] # 0
  THEN [cache   |-> [st.cache EXCEPT ![key] = 0],
        size    |-> st.size - Len8(entries[st.cache[key]].bytes),
        removed |-> st.removed \cup {key}]
  ELSE st

\* if entry, ok := c.cache[key]; ok { cacheSize.Add(-len); delete; cascade;
\* return true }
invalidate(st, key) ==
  IF st.cache[key] # 0
  THEN invalidateDependents(
         [cache   |-> [st.cache EXCEPT ![key] = 0],
          size    |-> st.size - Len8(entries[st.cache[key]].bytes),
          removed |-> st.removed \cup {key}],
         key, Keys)
  ELSE st

\* invalidateDependents deleting the direct dependents only.
RECURSIVE invalidateDependents_OneLevel(_, _, _)
invalidateDependents_OneLevel(st, key, todo) ==
  IF todo = {} THEN st
  ELSE LET k == CHOOSE x \in todo : TRUE
       IN invalidateDependents_OneLevel(
            IF st.cache[k] # 0 /\ key \in deps[k]
            THEN [cache   |-> [st.cache EXCEPT ![k] = 0],
                  size    |-> st.size - Len8(entries[st.cache[k]].bytes),
                  removed |-> st.removed \cup {k}]
            ELSE st,
            key, todo \ {k})

\* invalidateDependents without the test dep == key: every entry that has a
\* dependency goes.
RECURSIVE invalidateDependents_AnyDep(_, _, _)
invalidateDependents_AnyDep(st, key, todo) ==
  IF todo = {} THEN st
  ELSE LET k == CHOOSE x \in todo : TRUE
       IN invalidateDependents_AnyDep(
            IF st.cache[k] # 0 /\ deps[k] # {} THEN invalidate(st, k) ELSE st,
            key, todo \ {k})

\* for k := range c.cache { for dep := range k.Dependencies() { if dep == key
\* { c.invalidate(k) } } }; todo is what the range has not produced yet (a key
\* deleted before the range reaches it is not produced).
invalidateDependents(st, key, todo) ==
  IF todo = {} THEN st
  ELSE LET k == CHOOSE x \in todo : TRUE
       IN invalidateDependents(
            IF st.cache[k] # 0 /\ key \in deps[k] THEN invalidate(st, k) ELSE st,
            key, todo \ {k})

\* ---------------------------------------------------------------------------
\* Cache.Get
\* ---------------------------------------------------------------------------

\* The lookup that never finds an entry.
Present_Never(k) == FALSE

\* The lookup taking a placeholder for a miss.
Present_DoneOnly(k) == cache[k] # 0 /\ entries[cache[k]].done

\* if entry, ok := c.cache[key]; ok
Present(k) == cache[k] # 0

\* Get without the entry.wg.Wait().
WaitReady_NoWait(e) == TRUE

\* A waiter that looks for the completed entry in the map.
WaitReady_InMap(e) == entries[e].done /\ \E k \in Keys : cache[k] = e

\* entry.wg.Wait() returns once the producer called entry.wg.Done()
WaitReady(e) == entries[e].done

\* Get keeping the entry of a failed fetch.
EvictOnError_Keep(c, k, err) == c

\* if entry.err != nil { delete(c.cache, key) }
EvictOnError(c, k, err) == IF err THEN [c EXCEPT ![k] = 0] ELSE c

\* Total length of the blobs the map holds.
RECURSIVE SumLen(_)
SumLen(S) ==
  IF S = {} THEN 0
  ELSE LET k == CHOOSE x \in S : TRUE
       IN Len8(entries[cache[k]].bytes) + SumLen(S \ {k})

Resident == SumLen({k \in Keys : cache[k] # 0})

\* Goroutine p enters c.Get(k).
Enter(p, k) ==
  /\ ~Active(p)
  /\ cacheSize - Resident < MaxDrift
  /\ Need(k) + SumRemaining(Procs \ {p}) <= Cardinality(FreeIds)
  /\ Install(cache, [stack EXCEPT ![p] = <<GetFrame(k)>>], entries)
  /\ ret' = [ret EXCEPT ![p] = NoRet]
  /\ UNCHANGED <<cacheSize, cacheLock, good>>

\* A goroutine calls c.Get(k).
CallGet(p, k) ==
  /\ p \in world.procs /\ k \in world.keys
  /\ Enter(p, k)
  /\ UNCHANGED <<world, fetchers, mon, albumVars>>

\* c.cacheLock.Lock() at the top of Get
GetLock(p) ==
  /\ At(p, "Get", "lock")
  /\ cacheLock = ""
  /\ cacheLock' = p
  /\ stack' = SetTop(p, [Top(p) EXCEPT !.pc = "lookup"])
  /\ UNCHANGED <<world, fetchers, mon, cache, entries, cacheSize, ret, good, albumVars>>

\* Get keeping the lock when it goes on to fetch.
Unlocked_HitOnly(p, hit) == IF hit THEN "" ELSE p

\* c.cacheLock.Unlock(), on the path of the hit and on the path of the miss
Unlocked(p, hit) == ""

\* The critical section of Get up to the first Unlock on either path.
GetLookup(p) ==
  /\ At(p, "Get", "lookup")
  /\ cacheLock = p
  /\ LET f == Top(p) IN
       IF Present(f.key)
       THEN Install(cache, SetTop(p, [f EXCEPT !.pc = "wait", !.entry = cache[f.key]]),
                    entries)
       ELSE Install([cache EXCEPT ![f.key] = NewId],
                    SetPeers(SetTop(p, [f EXCEPT !.pc = "fetch", !.entry = NewId]),
                             {f.key}, {"none", "failed"}, "fetching"),
                    [entries EXCEPT ![NewId] = [Free EXCEPT !.key = f.key]])
  /\ cacheLock' = Unlocked(p, Present(Top(p).key))
  /\ UNCHANGED <<world, fetchers, mon, cacheSize, ret, good, albumVars>>

\* entry.wg.Wait(); return entry.bytes, entry.err
GetWait(p) ==
  /\ At(p, "Get", "wait")
  /\ WaitReady(Top(p).entry)
  /\ Install(cache, ReturnGet(p, Top(p), Top(p).entry), entries)
  /\ ret' = ReturnedGet(p, Top(p), Top(p).entry, TRUE)
  /\ good' = Succeeded(Top(p).key, Top(p).entry)
  /\ UNCHANGED <<world, fetchers, mon, cacheSize, cacheLock, albumVars>>

\* if fetcher, ok := c.fetchers[t]; ok
Registered(t) == t \in fetchers

\* c.fetch(key): the panic when no fetcher is registered for the type of the
\* key (it leaves the placeholders of the calls it unwinds in the map), else
\* fetcher.Call. The fetcher of a key without dependencies downloads; the
\* fetcher of a derived key first reads its source through the cache
\* (fetchThumbnail).
FetchStart(p) ==
  /\ At(p, "Get", "fetch")
  /\ LET f == Top(p)
         g == [f EXCEPT !.pc = "fetching", !.fetched = @ \cup {f.key}]
     IN IF ~Registered(TypeOf(f.key))
        THEN /\ Install(cache, [stack EXCEPT ![p] = <<>>], entries)
             /\ ret' = [ret EXCEPT ![p] = [NoRet EXCEPT !.op = "panic", !.key = f.key]]
        ELSE /\ IF deps[f.key] = {}
                THEN Install(cache, SetTop(p, g), entries)
                ELSE Install(cache, Push(p, g, GetFrame(Source(f.key))), entries)
             /\ ret' = ret
  /\ UNCHANGED <<world, fetchers, mon, cacheSize, cacheLock, good, albumVars>>

\* What the fetcher of f.key can return, as <<bytes, failed>>.
Outcomes(f) ==
  IF deps[f.key] = {}
  THEN {<<d, FALSE>> : d \in Data} \cup {<<0, TRUE>>}
  ELSE IF f.sub.err THEN {<<0, TRUE>>}
  ELSE {<<Resized(f.sub.bytes), FALSE>>, <<0, TRUE>>}

\* entry.bytes, entry.err = c.fetch(key); entry.wg.Done()
FetchReturn(p) ==
  /\ At(p, "Get", "fetching")
  /\ deps[Top(p).key] # {} => Top(p).sub.has
  /\ \E o \in Outcomes(Top(p)) :
       /\ entries' = [entries EXCEPT ![Top(p).entry] =
                        [@ EXCEPT !.bytes = o[1], !.err = o[2], !.done = TRUE]]
       /\ stack' = SetTop(p, [Top(p) EXCEPT !.pc = "commit"])
  /\ UNCHANGED <<world, fetchers, mon, cache, cacheSize, cacheLock, ret, good, albumVars>>

\* c.cacheLock.Lock() after the fetch
GetRelock(p) ==
  /\ At(p, "Get", "commit")
  /\ cacheLock = ""
  /\ cacheLock' = p
  /\ stack' = SetTop(p, [Top(p) EXCEPT !.pc = "evict"])
  /\ UNCHANGED <<world, fetchers, mon, cache, entries, cacheSize, ret, good, albumVars>>

\* if entry.err != nil { delete } else { cacheSize.Add }; Unlock; return
GetCommit(p) ==
  /\ At(p, "Get", "evict")
  /\ cacheLock = p
  /\ LET f == Top(p)
         e == entries[f.entry]
     IN /\ Install(EvictOnError(cache, f.key, e.err),
                   IF e.err
                   THEN SetPeers(ReturnGet(p, f, f.entry), {f.key}, {"fetching"}, "failed")
                   ELSE ReturnGet(p, f, f.entry),
                   entries)
        /\ cacheSize' = IF e.err THEN cacheSize ELSE cacheSize + Len8(e.bytes)
        /\ ret' = ReturnedGet(p, f, f.entry, FALSE)
        /\ good' = Succeeded(f.key, f.entry)
  /\ cacheLock' = ""
  /\ UNCHANGED <<world, fetchers, mon, albumVars>>

\* ---------------------------------------------------------------------------
\* Cache.Invalidate
\* ---------------------------------------------------------------------------

CallInvalidate(p, k) ==
  /\ p \in world.procs /\ k \in world.keys
  /\ ~Active(p)
  /\ stack' = [stack EXCEPT ![p] = <<InvalidateFrame(k)>>]
  /\ ret' = [ret EXCEPT ![p] = NoRet]
  /\ UNCHANGED <<world, fetchers, mon, cache, entries, cacheSize, cacheLock, good, albumVars>>

\* c.cacheLock.Lock(); defer c.cacheLock.Unlock()
InvalidateLock(p) ==
  /\ At(p, "Invalidate", "lock")
  /\ cacheLock = ""
  /\ cacheLock' = p
  /\ stack' = SetTop(p, [Top(p) EXCEPT !.pc = "invalidate"])
  /\ UNCHANGED <<world, fetchers, mon, cache, entries, cacheSize, ret, good, albumVars>>

\* return c.invalidate(key), then the deferred Unlock
InvalidateBody(p) ==
  /\ At(p, "Invalidate", "invalidate")
  /\ cacheLock = p
  /\ LET K == Top(p).key
         st == invalidate([cache |-> cache, size |-> cacheSize, removed |-> {}], K)
     IN /\ Install(st.cache,
                   SetPeers([stack EXCEPT ![p] = <<>>], Downstream(K),
                            {"fetching", "failed"}, "none"),
                   entries)
        /\ cacheSize' = st.size
        /\ ret' = [ret EXCEPT ![p] = [NoRet EXCEPT !.op = "Invalidate", !.key = K,
                                                   !.removed = st.removed]]
        /\ good' = [k \in Keys |-> IF k \in Downstream(K) THEN 0 ELSE good[k]]
  /\ cacheLock' = ""
  /\ UNCHANGED <<world, fetchers, mon, albumVars>>

\* ---------------------------------------------------------------------------
\* Specification
\* ---------------------------------------------------------------------------

Next ==
  \E p \in Procs :
    \/ \E k \in Keys : CallGet(p, k)
    \/ GetLock(p)
    \/ GetLookup(p)
    \/ GetWait(p)
    \/ FetchStart(p)
    \/ FetchReturn(p)
    \/ GetRelock(p)
    \/ GetCommit(p)
    \/ \E k \in Keys : CallInvalidate(p, k)
    \/ InvalidateLock(p)
    \/ InvalidateBody(p)

Spec == Init /\ [][Next]_vars

\* Two goroutines and two keys that have nothing to do with each other.
BesideInit ==
  /\ world = Beside
  /\ fetchers = Types
  /\ mon = NoMon
  /\ NewCache
  /\ NewAlbum
  /\ remote = [hash |-> 1, dir |-> TRUE, files |-> [n \in Names |-> NoFile]]

\* A goroutine that can run does run: p1 when it holds the lock, p2 always,
\* the fetcher it called included; and sync.Mutex hands the lock to p2 if p2
\* keeps asking for it. Nothing makes a goroutine call Get or Invalidate, and
\* nothing makes p1 call its fetcher or the fetcher that p1 called return.
BesideFair ==
  /\ WF_vars(GetLookup("p1") \/ GetCommit("p1"))
  /\ SF_vars(GetLock("p2") \/ GetRelock("p2") \/ InvalidateLock("p2"))
  /\ WF_vars(GetLookup("p2") \/ GetWait("p2") \/ FetchStart("p2") \/ FetchReturn("p2")
                \/ GetCommit("p2") \/ InvalidateBody("p2"))

\* p1 calls Get of A, over and over; p2 calls Get of C and Invalidate of
\* either key.
BesideNext ==
  \/ CallGet("p1", "A")
  \/ CallGet("p2", "C")
  \/ \E k \in Keys : CallInvalidate("p2", k)
  \/ \E p \in Procs :
       \/ GetLock(p)
       \/ GetLookup(p)
       \/ GetWait(p)
       \/ FetchStart(p)
       \/ FetchReturn(p)
       \/ GetRelock(p)
       \/ GetCommit(p)
       \/ InvalidateLock(p)
       \/ InvalidateBody(p)

BesideSpec == BesideInit /\ [][BesideNext]_vars /\ BesideFair

\* ---------------------------------------------------------------------------
\* Cache.RegisterFetcher
\* ---------------------------------------------------------------------------

\* assertValidFetcher checking the arguments only.
assertValidFetcher_ArgsOnly(t) == t.kind = "func" /\ Len(t.ins) = 1

\* assertValidFetcher(t) returns (it panics otherwise): t.Kind() is Func,
\* t.NumIn() is 1, t.NumOut() is 2, t.Out(0) is []byte and t.Out(1) is error.
assertValidFetcher(t) ==
  /\ t.kind = "func"
  /\ Len(t.ins) = 1
  /\ Len(t.outs) = 2 /\ t.outs[1] = "[]byte" /\ t.outs[2] = "error"

\* c.RegisterFetcher(fn): assertValidFetcher, then, under the lock,
\* c.fetchers[t.In(0)] = v
RegisterFetcher(p, v) ==
  /\ p \in world.procs
  /\ ~Active(p)
  /\ IF assertValidFetcher(v)
     THEN /\ cacheLock = ""
          /\ fetchers' = fetchers \cup {v.ins[1]}
          /\ ret' = [ret EXCEPT ![p] = [NoRet EXCEPT !.op = "RegisterFetcher", !.shape = v]]
     ELSE /\ fetchers' = fetchers
          /\ ret' = [ret EXCEPT ![p] = [NoRet EXCEPT !.op = "panic", !.shape = v]]
  /\ UNCHANGED <<world, mon, cache, entries, cacheSize, cacheLock, stack, good, albumVars>>

\* A cache fresh from New, its fetchers yet to be registered, and one
\* goroutine that registers them and calls Get.
Alone == [keys |-> {"A", "B"}, procs |-> {"p1"}, deps |-> Racing.deps]

RegisterInit ==
  /\ world = Alone
  /\ fetchers = {}
  /\ mon = NoMon
  /\ NewCache
  /\ NewAlbum
  /\ remote = [hash |-> 1, dir |-> TRUE, files |-> [n \in Names |-> NoFile]]

RegisterNext ==
  \E p \in Procs :
    \/ \E v \in Shapes : RegisterFetcher(p, v)
    \/ \E k \in Keys : CallGet(p, k)
    \/ GetLock(p)
    \/ GetLookup(p)
    \/ GetWait(p)
    \/ FetchStart(p)
    \/ FetchReturn(p)
    \/ GetRelock(p)
    \/ GetCommit(p)

RegisterSpec == RegisterInit /\ [][RegisterNext]_vars

\* ---------------------------------------------------------------------------
\* Album: the remote folder
\* ---------------------------------------------------------------------------

cacheVars == <<cache, entries, cacheSize, cacheLock, stack, ret, good>>

\* The configurations the album is played in: the files of the folder, the
\* callers of Load, the goroutine that runs loadExifInfo for the item at each
\* place of the listing, and the goroutines that serve requests with the
\* Album methods they call. Served: one photo with its thumbnail and a reader
\* of both. Pair: two photos and a reader of the list. Twice: two callers of
\* Load. Moved: one photo, its thumbnail and a reader of the thumbnail. first
\* are the files the folder has at the start, asks the names the readers ask
\* for, and ops is what happens to the folder: in Served a file is written, in Pair a file is written or deleted,
\* in Twice a file is written or the folder is replaced by a plain file, and
\* in Moved the file is renamed.
Served == [keys |-> {"A", "B"}, procs |-> {"p1", "p3"}, deps |-> Racing.deps,
           names |-> {"a"}, first |-> {"a"}, ops |-> {"write"},
           loaders |-> {"l1"}, workers |-> <<"p1">>,
           readers |-> {"p3"}, reads |-> {"Photo", "Thumbnail", "Photos"},
           asks |-> {"a"}]
Pair == [keys |-> {"A", "C"}, procs |-> {"p1", "p2"}, deps |-> Racing.deps,
         names |-> {"a", "c"}, first |-> {"a", "c"}, ops |-> {"write", "delete"},
         loaders |-> {"l1"}, workers |-> <<"p1", "p2">>,
         readers |-> {"p3"}, reads |-> {"Photos", "FirstPhoto"}, asks |-> {}]
Twice == [keys |-> {"A"}, procs |-> {"p1"}, deps |-> Racing.deps,
          names |-> {"a"}, first |-> {"a"}, ops |-> {"write", "replace"},
          loaders |-> {"l1", "l2"}, workers |-> <<"p1">>,
          readers |-> {}, reads |-> {}, asks |-> {}]
Moved == [keys |-> {"A", "B"}, procs |-> {"p1", "p3"}, deps |-> Racing.deps,
          names |-> {"a", "c"}, first |-> {"a"}, ops |-> {"rename"},
          loaders |-> {"l1"}, workers |-> <<"p1">>,
          readers |-> {"p3"}, reads |-> {"Thumbnail"}, asks |-> {"a"}]

AlbumWorlds == {Served, Pair, Twice, Moved}

\* One original key for every name.
OrigKey_Same(n) == "A"

\* originalCacheKey{name} and thumbCacheKey{name, 200, 200}
OrigKey(n) == IF n = "a" THEN "A" ELSE "C"
ThumbKey(n) == IF n = "a" THEN "B" ELSE ""

AlbumInit ==
  /\ world \in AlbumWorlds
  /\ fetchers = Types
  /\ mon = NoMon
  /\ NewCache
  /\ NewAlbum
  /\ remote = [hash |-> 1, dir |-> TRUE,
               files |-> [n \in Names |-> IF n \in world.first THEN FirstStat ELSE NoFile]]

\* A file of the folder is written: its listing changes and so does the
\* folder's hash.
RemoteWrite(n, s) ==
  /\ "write" \in world.ops /\ n \in world.first
  /\ remote.hash < MaxRev /\ remote.dir
  /\ remote.files[n] # s
  /\ remote' = [remote EXCEPT !.hash = @ + 1, !.files[n] = s]
  /\ UNCHANGED <<world, fetchers, mon, cacheVars, lastHash, photoList, photoMap, loading, mu,
                 lists, ld, job, rd, held>>

\* A file of the folder is deleted.
RemoteDelete(n) ==
  /\ "delete" \in world.ops /\ n \in world.names
  /\ remote.hash < MaxRev /\ remote.dir
  /\ remote.files[n] # NoFile
  /\ remote' = [remote EXCEPT !.hash = @ + 1, !.files[n] = NoFile]
  /\ UNCHANGED <<world, fetchers, mon, cacheVars, lastHash, photoList, photoMap, loading, mu,
                 lists, ld, job, rd, held>>

\* A file of the folder is given a name no file has.
RemoteRename(n, m) ==
  /\ "rename" \in world.ops /\ n \in world.names /\ m \in world.names
  /\ remote.hash < MaxRev /\ remote.dir
  /\ remote.files[n] # NoFile /\ remote.files[m] = NoFile
  /\ remote' = [remote EXCEPT !.hash = @ + 1, !.files[m] = remote.files[n],
                              !.files[n] = NoFile]
  /\ UNCHANGED <<world, fetchers, mon, cacheVars, lastHash, photoList, photoMap, loading, mu,
                 lists, ld, job, rd, held>>

\* The folder is removed and a plain file takes its path.
RemoteReplace ==
  /\ "replace" \in world.ops
  /\ remote.hash < MaxRev /\ remote.dir
  /\ remote' = [hash |-> remote.hash + 1, dir |-> FALSE,
                files |-> [n \in Names |-> NoFile]]
  /\ UNCHANGED <<world, fetchers, mon, cacheVars, lastHash, photoList, photoMap, loading, mu,
                 lists, ld, job, rd, held>>

\* entry.Contents: the files the folder lists, in the order of the listing.
RECURSIVE Contents(_)
Contents(i) ==
  IF i > Len(NameOrder) THEN <<>>
  ELSE LET n == NameOrder[i]
           f == remote.files[n]
       IN (IF f = NoFile THEN <<>>
           ELSE <<[Path |-> n, Bytes |-> f.Bytes, ClientMtime |-> f.ClientMtime,
                   Modified |-> f.Modified]>>) \o Contents(i + 1)

\* ---------------------------------------------------------------------------
\* Album: pure parts
\* ---------------------------------------------------------------------------

Digit == <<"0", "1", "2", "3", "4", "5", "6", "7", "8", "9">>

\* %d
RECURSIVE Dec(_)
Dec(n) == IF n < 10 THEN <<Digit[n + 1]>> ELSE Dec(n \div 10) \o <<Digit[(n % 10) + 1]>>

\* hash := fmt.Sprintf("%d:%d:%d", e.Bytes, clientModified.Unix(),
\* dropboxModified.Unix())
hash(e) == Dec(e.Bytes) \o <<":">> \o Dec(e.ClientMtime) \o <<":">> \o Dec(e.Modified)

\* The diff treating every item as changed.
Dirty_Always(old, h) == TRUE

\* The diff treating a known name as unchanged.
Dirty_NewOnly(old, h) == old = NoPhoto

\* if old, ok := a.photoMap[name]; !ok || old.Hash != hash
Dirty(old, h) == old = NoPhoto \/ old.Hash # h

\* The Photo of a dirty item with the server's modification time as the
\* default of ExifCreated.
Fresh_ServerTime(e) ==
  [Filename |-> e.Path, Size |-> e.Bytes, Hash |-> hash(e),
   DropboxModified |-> e.Modified, ExifCreated |-> e.Modified]

\* The Photo built for a dirty item; ExifCreated defaults to the client's
\* modification time.
Fresh(e) == [Filename |-> e.Path, Size |-> e.Bytes, Hash |-> hash(e),
             DropboxModified |-> e.Modified, ExifCreated |-> e.ClientMtime]

\* exif.Decode and x.DateTime on a downloaded blob: the time it carries, 0 when
\* it carries none.
DateTime(b) == IF b % 2 = 1 THEN b + 2 ELSE 0

\* Less in the other direction.
Less_Ascending(x, y) == x.ExifCreated < y.ExifCreated

\* photoList.Less: a[j].ExifCreated.Before(a[i].ExifCreated)
Less(x, y) == y.ExifCreated < x.ExifCreated

\* sort.Sort(photos): a permutation of s that Less finds in order.
Sorts(s) ==
  LET n == Len(s)
      perms == {f \in [1 .. n -> 1 .. n] : \A i, j \in 1 .. n : f[i] = f[j] => i = j}
  IN {t \in {[i \in 1 .. n |-> s[f[i]]] : f \in perms} :
        \A i, j \in 1 .. n : i < j => ~Less(t[j], t[i])}

\* ---------------------------------------------------------------------------
\* Album: the photoList slices
\* ---------------------------------------------------------------------------

ListRefs(pl, lds, hd) ==
  <<pl>> \o [i \in 1 .. Len(LoaderOrder) |-> lds[LoaderOrder[i]].photos]
         \o [i \in 1 .. Len(ProcOrder) |-> hd[ProcOrder[i]]]

\* make handing out the array the album already uses.
MakeList_Shared ==
  IF photoList # 0 THEN photoList
  ELSE CHOOSE i \in ListIds :
         \A j \in 1 .. Len(ListRefs(photoList, ld, held)) :
           ListRefs(photoList, ld, held)[j] # i

\* make(photoList, n): an array nothing refers to.
MakeList ==
  CHOOSE i \in ListIds :
    \A j \in 1 .. Len(ListRefs(photoList, ld, held)) :
      ListRefs(photoList, ld, held)[j] # i

\* The step leaves the album's list pl, the callers lds, the readers' slices
\* hd and the arrays ls; arrays nothing refers to are garbage, and the others
\* are numbered in the order of the places that refer to them.
Shelve(pl, lds, hd, ls) ==
  LET live == Uniq(ListRefs(pl, lds, hd), {})
      rn(i) == IF i = 0 THEN 0 ELSE CHOOSE j \in 1 .. Len(live) : live[j] = i
  IN /\ photoList' = rn(pl)
     /\ ld' = [l \in Loaders |-> [lds[l] EXCEPT !.photos = rn(@)]]
     /\ held' = [p \in Procs |-> rn(hd[p])]
     /\ lists' = [j \in ListIds |-> IF j <= Len(live) THEN ls[live[j]] ELSE <<>>]

\* ---------------------------------------------------------------------------
\* Album.Load
\* ---------------------------------------------------------------------------

\* Load without the guard.
Busy_Never == FALSE

\* Load that turns every caller away.
Busy_Always == TRUE

\* if a.loading
Busy == loading

\* a.mu.Lock(); if a.loading { Unlock; return busy }; a.loading = true;
\* defer ...; a.mu.Unlock()
LoadGuard(l) ==
  /\ l \in world.loaders
  /\ ld[l].pc = "idle"
  /\ mu = ""
  /\ IF Busy
     THEN /\ ld' = [ld EXCEPT ![l] = [NoLoad EXCEPT !.res = "busy"]]
          /\ loading' = loading
     ELSE /\ ld' = [ld EXCEPT ![l] = [NoLoad EXCEPT !.pc = "metadata"]]
          /\ loading' = TRUE
  /\ UNCHANGED <<world, fetchers, mon, cacheVars, remote, lastHash, photoList, photoMap, mu,
                 lists, job, rd, held>>

\* What Metadata answers when it answers with an entry.
Metadata == [Hash |-> remote.hash, IsDir |-> remote.dir, Contents |-> Contents(1)]

\* Load taking any path for a directory.
NotDir_Ignored(e) == FALSE

\* if !entry.IsDir
NotDir(e) == ~e.IsDir

\* Load going on after a 304.
NotModified_Ignored(h) == FALSE

\* Metadata(folder, ..., a.lastHash, ...) answers 304 when the folder still
\* has the hash it is given.
NotModified(h) == h = remote.hash

\* entry, err := a.dropbox.Metadata(...); the 304, the other errors, and
\* photos := make(photoList, len(entry.Contents))
LoadMetadata(l) ==
  /\ ld[l].pc = "metadata"
  /\ \/ /\ NotModified(lastHash)
        /\ ld' = [ld EXCEPT ![l] = [@ EXCEPT !.pc = "return", !.res = "nil", !.path = "304"]]
        /\ UNCHANGED <<photoList, held, lists>>
     \/ /\ ld' = [ld EXCEPT ![l] = [@ EXCEPT !.pc = "return", !.res = "metadata"]]
        /\ UNCHANGED <<photoList, held, lists>>
     \/ /\ ~NotModified(lastHash)
        /\ NotDir(Metadata)
        /\ ld' = [ld EXCEPT ![l] = [@ EXCEPT !.pc = "return", !.res = "notdir"]]
        /\ UNCHANGED <<photoList, held, lists>>
     \/ /\ ~NotModified(lastHash)
        /\ ~NotDir(Metadata)
        /\ LET c == Metadata.Contents
               n == Len(c)
               id == MakeList
           IN Shelve(photoList,
                     [ld EXCEPT ![l] = [@ EXCEPT !.entry = Metadata,
                                                 !.photos = id, !.i = 1,
                                                 !.pc = IF n = 0 THEN "join" ELSE "diff"]],
                     held,
                     [lists EXCEPT ![id] = [i \in 1 .. n |-> NoPhoto]])
  /\ UNCHANGED <<world, fetchers, mon, cacheVars, remote, lastHash, photoMap, loading, mu, job, rd>>

\* The fetch that fills entry e has been started.
Started(e) ==
  \/ entries[e].done
  \/ \E f \in {stack[x[1]][x[2]] : x \in Frames} :
       f.op = "Get" /\ f.entry = e /\ f.pc \in {"fetching", "commit", "evict"}

\* One turn of the loop over entry.Contents: a dirty item gets a new Photo,
\* a.cache.Invalidate(originalCacheKey{name}) and go a.loadExifInfo; an
\* unchanged item is copied from the catalog.
LoadItem(l) ==
  /\ ld[l].pc = "diff"
  /\ LET f == ld[l]
         e == f.entry.Contents[f.i]
         name == e.Path
         old == photoMap[name]
         O == OrigKey(name)
         w == world.workers[f.i]
         pc == IF f.i = Len(f.entry.Contents) THEN "join" ELSE "diff"
     IN IF Dirty(old, hash(e))
        THEN /\ cacheLock = ""
             /\ lists' = [lists EXCEPT ![f.photos][f.i] = Fresh(e)]
             /\ ld' = [ld EXCEPT ![l] = [f EXCEPT !.i = @ + 1, !.pc = pc, !.wg = @ + 1,
                                                  !.dirty = @ \cup {name}]]
             /\ LET st == invalidate([cache |-> cache, size |-> cacheSize, removed |-> {}], O)
                IN /\ Install(st.cache,
                              SetPeers(stack, Downstream(O), {"fetching", "failed"}, "none"),
                              [x \in Ids |->
                                 IF \E k \in Downstream(O) : st.cache[k] = x /\ Started(x)
                                 THEN [entries[x] EXCEPT !.old = TRUE] ELSE entries[x]])
                   /\ cacheSize' = st.size
                   /\ good' = [k \in Keys |-> IF k \in Downstream(O) THEN 0 ELSE good[k]]
             /\ job' = [job EXCEPT ![w] = [loader |-> l, i |-> f.i, pc |-> "spawned"]]
             /\ UNCHANGED <<cacheLock, ret>>
        ELSE /\ lists' = [lists EXCEPT ![f.photos][f.i] = old]
             /\ ld' = [ld EXCEPT ![l] = [f EXCEPT !.i = @ + 1, !.pc = pc]]
             /\ UNCHANGED <<cacheVars, job>>
  /\ UNCHANGED <<world, fetchers, mon, remote, lastHash, photoList, photoMap, loading, mu, rd, held>>

\* Load publishing without waiting for the loads.
Joined_NoWait(f) == TRUE

\* wg.Wait()
Joined(f) == f.wg = 0

\* wg.Wait(); sort.Sort(photos)
LoadJoin(l) ==
  /\ ld[l].pc = "join"
  /\ Joined(ld[l])
  /\ \E s \in Sorts(lists[ld[l].photos]) :
       lists' = [lists EXCEPT ![ld[l].photos] = s]
  /\ ld' = [ld EXCEPT ![l] = [@ EXCEPT !.pc = "publish"]]
  /\ UNCHANGED <<world, fetchers, mon, cacheVars, remote, lastHash, photoList, photoMap, loading,
                 mu, job, rd, held>>

\* a.mu.Lock(); a.lastHash = entry.Hash; a.photoList = photos;
\* a.photoMap = make(map[string]Photo)
PublishHead(l) ==
  /\ ld[l].pc = "publish"
  /\ mu = ""
  /\ mu' = l
  /\ lastHash' = ld[l].entry.Hash
  /\ photoMap' = [n \in Names |-> NoPhoto]
  /\ Shelve(ld[l].photos,
            [ld EXCEPT ![l] = [@ EXCEPT !.i = 1, !.was = photoMap,
                                        !.pc = IF Len(ld[l].entry.Contents) = 0
                                               THEN "unlock" ELSE "fill"]],
            held, lists)
  /\ UNCHANGED <<world, fetchers, mon, cacheVars, remote, loading, job, rd>>

\* for _, p := range photos { a.photoMap[p.Filename] = p }: one turn
PublishFill(l) ==
  /\ ld[l].pc = "fill"
  /\ LET f == ld[l]
         p == lists[f.photos][f.i]
     IN /\ photoMap' = [photoMap EXCEPT ![p.Filename] = p]
        /\ ld' = [ld EXCEPT ![l] = [f EXCEPT !.i = @ + 1,
                                             !.pc = IF f.i = Len(lists[f.photos])
                                                    THEN "unlock" ELSE "fill"]]
  /\ UNCHANGED <<world, fetchers, mon, cacheVars, remote, lastHash, photoList, loading, mu, lists,
                 job, rd, held>>

\* a.mu.Unlock() after the publication
PublishUnlock(l) ==
  /\ ld[l].pc = "unlock"
  /\ mu = l
  /\ mu' = ""
  /\ ld' = [ld EXCEPT ![l] = [@ EXCEPT !.pc = "return", !.res = "nil", !.path = "full"]]
  /\ UNCHANGED <<world, fetchers, mon, cacheVars, remote, lastHash, photoList, photoMap, loading,
                 lists, job, rd, held>>

\* return, and the deferred a.loading = false
LoadReturn(l) ==
  /\ ld[l].pc = "return"
  /\ loading' = FALSE
  /\ Shelve(photoList,
            [ld EXCEPT ![l] = [NoLoad EXCEPT !.res = ld[l].res, !.path = ld[l].path]],
            held, lists)
  /\ UNCHANGED <<world, fetchers, mon, cacheVars, remote, lastHash, photoMap, mu, job, rd>>

\* ---------------------------------------------------------------------------
\* Album.loadExifInfo
\* ---------------------------------------------------------------------------

\* The name of the Photo p's loadExifInfo was given.
JobName(p) == lists[ld[job[p].loader].photos][job[p].i].Filename

\* data, err := a.cache.Get(originalCacheKey{p.Filename}): the call
ExifStart(p) ==
  /\ job[p].pc = "spawned"
  /\ Enter(p, OrigKey(JobName(p)))
  /\ job' = [job EXCEPT ![p] = [@ EXCEPT !.pc = "get"]]
  /\ UNCHANGED <<world, fetchers, mon, remote, lastHash, photoList, photoMap, loading, mu, lists,
                 ld, rd, held>>

\* The rest of loadExifInfo once Get returned: p.ExifCreated = t unless the
\* download, the decoding or the date failed; then the deferred wg.Done().
ExifFinish(p) ==
  /\ job[p].pc = "get"
  /\ ~Active(p)
  /\ LET l == job[p].loader
         t == DateTime(ret[p].bytes)
     IN /\ lists' = IF ~ret[p].err /\ t # 0
                    THEN [lists EXCEPT ![ld[l].photos][job[p].i].ExifCreated = t]
                    ELSE lists
        /\ ld' = [ld EXCEPT ![l] =
                   [@ EXCEPT !.wg = @ - 1,
                             !.how[JobName(p)] = IF ret[p].err THEN "error"
                                                 ELSE IF t = 0 THEN "notime" ELSE "time"]]
  /\ job' = [job EXCEPT ![p] = NoJob]
  /\ ret' = [ret EXCEPT ![p] = NoRet]
  /\ UNCHANGED <<world, fetchers, mon, cache, entries, cacheSize, cacheLock, stack, good, remote,
                 lastHash, photoList, photoMap, loading, mu, rd, held>>

\* ---------------------------------------------------------------------------
\* Album.Photo, Album.Thumbnail, Album.FirstPhoto, Album.Photos
\* ---------------------------------------------------------------------------

\* The lookup taking every name for a photo of the catalog.
Listed_Always(n) == TRUE

\* photo, ok := a.photoMap[name]
Listed(n) == photoMap[n] # NoPhoto

\* if photo, ok := a.photoMap[name]; ok { a.cache.Get(key) } else { error }
Lookup(r, op, n, key) ==
  /\ r \in world.readers /\ op \in world.reads /\ n \in world.asks
  /\ ~Active(r)
  /\ IF Listed(n)
     THEN /\ key \in world.keys
          /\ Enter(r, key)
          /\ rd' = [rd EXCEPT ![r] = [op |-> op, name |-> n, photo |-> photoMap[n],
                                      found |-> TRUE]]
     ELSE /\ rd' = [rd EXCEPT ![r] = [op |-> op, name |-> n, photo |-> NoPhoto,
                                      found |-> FALSE]]
          /\ ret' = [ret EXCEPT ![r] = NoRet]
          /\ UNCHANGED <<cache, entries, cacheSize, cacheLock, stack, good>>
  /\ UNCHANGED <<world, fetchers, mon, remote, lastHash, photoList, photoMap, loading, mu, lists,
                 ld, job, held>>

Photo(r, n) == Lookup(r, "Photo", n, OrigKey(n))

Thumbnail(r, n) == Lookup(r, "Thumbnail", n, ThumbKey(n))

\* return a.photoList[0]; the index is out of range when there is no photo.
FirstPhoto(r) ==
  /\ r \in world.readers /\ "FirstPhoto" \in world.reads
  /\ ~Active(r)
  /\ rd' = [rd EXCEPT ![r] =
              IF photoList # 0 /\ Len(lists[photoList]) > 0
              THEN [op |-> "FirstPhoto", name |-> "", photo |-> lists[photoList][1],
                    found |-> TRUE]
              ELSE [op |-> "FirstPhoto", name |-> "", photo |-> NoPhoto, found |-> FALSE]]
  /\ UNCHANGED <<world, fetchers, mon, cacheVars, remote, lastHash, photoList, photoMap, loading,
                 mu, lists, ld, job, held>>

\* a.mu.RLock(); c := make(photoList, len(a.photoList)); copy(c, a.photoList)
Photos(r) ==
  /\ r \in world.readers /\ "Photos" \in world.reads
  /\ ~Active(r)
  /\ mu = ""
  /\ LET id == MakeList
     IN Shelve(photoList, ld, [held EXCEPT ![r] = id],
               [lists EXCEPT ![id] = IF photoList = 0 THEN <<>> ELSE lists[photoList]])
  /\ UNCHANGED <<world, fetchers, mon, cacheVars, remote, lastHash, photoMap, loading, mu, job, rd>>

\* ---------------------------------------------------------------------------
\* Album: specification
\* ---------------------------------------------------------------------------

AlbumNext ==
  \/ \E n \in Names : \E s \in Stats : RemoteWrite(n, s)
  \/ \E n \in Names : RemoteDelete(n)
  \/ \E n \in Names : \E m \in Names : RemoteRename(n, m)
  \/ RemoteReplace
  \/ \E l \in Loaders :
       \/ LoadGuard(l)
       \/ LoadMetadata(l)
       \/ LoadItem(l)
       \/ LoadJoin(l)
       \/ PublishHead(l)
       \/ PublishFill(l)
       \/ PublishUnlock(l)
       \/ LoadReturn(l)
  \/ \E p \in Procs :
       \/ ExifStart(p)
       \/ ExifFinish(p)
       \/ GetLock(p)
       \/ GetLookup(p)
       \/ GetWait(p)
       \/ FetchStart(p)
       \/ FetchReturn(p)
       \/ GetRelock(p)
       \/ GetCommit(p)
       \/ \E n \in Names : Photo(p, n)
       \/ \E n \in Names : Thumbnail(p, n)
       \/ FirstPhoto(p)
       \/ Photos(p)

AlbumSpec == AlbumInit /\ [][AlbumNext]_vars

\* ---------------------------------------------------------------------------
\* time.Duration
\* ---------------------------------------------------------------------------

\* A Duration is an int64 count of nanoseconds: here the four 16-bit digits of
\* its 64 bits in two's complement, from the least significant on.
Digit16 == 2 ^ 16

\* The Duration of n nanoseconds, for n from 0 to 2^31 - 1.
Nanoseconds(n) == <<n % Digit16, n \div Digit16, 0, 0>>

\* The digits of a * n from the i-th on, for a natural number n below 2^15;
\* the carry out of the last digit is lost, as the machine loses it.
RECURSIVE TimesFrom(_, _, _, _)
TimesFrom(a, n, i, carry) ==
  IF i > Len(a) THEN <<>>
  ELSE <<(a[i] * n + carry) % Digit16>>
         \o TimesFrom(a, n, i + 1, (a[i] * n + carry) \div Digit16)

\* a * n
Times(a, n) == TimesFrom(a, n, 1, 0)

\* a > 0
Positive(a) == a[4] < 2 ^ 15 /\ a # Nanoseconds(0)

\* time.Second
Second == Nanoseconds(1000000000)

\* ---------------------------------------------------------------------------
\* NewPhotoSite and Album.Monitor
\* ---------------------------------------------------------------------------

\* config.PollFreq: not set, or an hour.
PollFreqs == {Nanoseconds(0), Times(Times(Second, 60), 60)}

\* pf := time.Second * 30; if config.PollFreq > 0 { pf = config.PollFreq }
pf(PollFreq) == IF Positive(PollFreq) THEN PollFreq ELSE Times(Second, 30)

\* The album as NewPhotoSite starts it: one photo in the folder, and the
\* goroutine that calls Load and then Monitor as the only caller of Load.
Site == [keys |-> {"A"}, procs |-> {"p1"}, deps |-> Racing.deps,
         names |-> {"a"}, first |-> {"a"}, ops |-> {"write"},
         loaders |-> {"l1"}, workers |-> <<"p1">>,
         readers |-> {}, reads |-> {}, asks |-> {}]

SiteInit ==
  /\ world = Site
  /\ fetchers = Types
  /\ \E f \in PollFreqs : mon = [NoMon EXCEPT !.pc = "boot", !.interval = pf(f)]
  /\ NewCache
  /\ NewAlbum
  /\ remote = [hash |-> 1, dir |-> TRUE,
               files |-> [n \in Names |-> IF n \in world.first THEN FirstStat ELSE NoFile]]

\* err := album.Load() in NewPhotoSite and err := a.Load() in Monitor: the
\* call, up to the guard of Load.
SiteLoad(l) ==
  /\ mon.pc \in {"boot", "call"}
  /\ ld[l].res = "none"
  /\ LoadGuard(l)

\* The goroutine going on to Monitor whatever Load returned.
Fatal_Never(res) == FALSE

\* if err != nil { log.Fatal(err) }
Fatal(res) == res # "nil"

\* The first Load has returned: log.Fatal(err) ends the process, else
\* album.Monitor(pf) sets c := interval and starts the loop.
MonitorStart(l) ==
  /\ l \in world.loaders
  /\ mon.pc = "boot"
  /\ ld[l].pc = "idle" /\ ld[l].res # "none"
  /\ mon' = IF Fatal(ld[l].res)
            THEN [mon EXCEPT !.pc = "dead", !.first = ld[l].res]
            ELSE [mon EXCEPT !.pc = "sleep", !.c = mon.interval, !.first = ld[l].res]
  /\ ld' = [ld EXCEPT ![l] = NoLoad]
  /\ UNCHANGED <<world, fetchers, cacheVars, remote, lastHash, photoList, photoMap,
                 loading, mu, lists, job, rd, held>>

\* time.Sleep(c) returns.
MonitorSleep ==
  /\ mon.pc = "sleep"
  /\ mon.fails < MaxFails
  /\ mon' = [mon EXCEPT !.pc = "call"]
  /\ UNCHANGED <<world, fetchers, cacheVars, albumVars>>

\* c = c * 2
Backoff(c, interval) == Times(c, 2)

\* a.Load() has returned in the loop: if err != nil { c = c * 2 } else
\* { c = interval }
MonitorResult(l) ==
  /\ l \in world.loaders
  /\ mon.pc = "call"
  /\ ld[l].pc = "idle" /\ ld[l].res # "none"
  /\ mon' = IF ld[l].res # "nil"
            THEN [mon EXCEPT !.pc = "sleep", !.c = Backoff(mon.c, mon.interval),
                             !.fails = @ + 1]
            ELSE [mon EXCEPT !.pc = "sleep", !.c = mon.interval, !.fails = 0]
  /\ ld' = [ld EXCEPT ![l] = NoLoad]
  /\ UNCHANGED <<world, fetchers, cacheVars, remote, lastHash, photoList, photoMap,
                 loading, mu, lists, job, rd, held>>

SiteNext ==
  \/ \E n \in Names : \E s \in Stats : RemoteWrite(n, s)
  \/ MonitorSleep
  \/ \E l \in Loaders :
       \/ SiteLoad(l)
       \/ MonitorStart(l)
       \/ MonitorResult(l)
       \/ LoadMetadata(l)
       \/ LoadItem(l)
       \/ LoadJoin(l)
       \/ PublishHead(l)
       \/ PublishFill(l)
       \/ PublishUnlock(l)
       \/ LoadReturn(l)
  \/ \E p \in Procs :
       \/ ExifStart(p)
       \/ ExifFinish(p)
       \/ GetLock(p)
       \/ GetLookup(p)
       \/ FetchStart(p)
       \/ FetchReturn(p)
       \/ GetRelock(p)
       \/ GetCommit(p)

SiteSpec == SiteInit /\ [][SiteNext]_vars

\* ---------------------------------------------------------------------------
\* Progress: goroutines that run, fetchers that return
\* ---------------------------------------------------------------------------

\* A cache with one key and three goroutines: p1 and p2 call Get, once each,
\* and p3 calls Invalidate over and over.
Waiting == [keys |-> {"A"}, procs |-> {"p1", "p2", "p3"}, deps |-> Racing.deps,
            names |-> {}, first |-> {}, ops |-> {},
            loaders |-> {}, workers |-> <<>>,
            readers |-> {}, reads |-> {}, asks |-> {}]

\* Either that cache, or the album of Site with whoever calls Load.
LiveInit ==
  /\ world \in {Waiting, Site}
  /\ fetchers = Types
  /\ mon = NoMon
  /\ NewCache
  /\ NewAlbum
  /\ remote = [hash |-> 1, dir |-> TRUE,
               files |-> [n \in Names |-> IF n \in world.first THEN FirstStat ELSE NoFile]]

\* What goroutine p does once it is inside Get, Invalidate or loadExifInfo,
\* the return of the fetcher it called included.
Runs(p) ==
  \/ GetLock(p)
  \/ GetLookup(p)
  \/ GetWait(p)
  \/ FetchStart(p)
  \/ FetchReturn(p)
  \/ GetRelock(p)
  \/ GetCommit(p)
  \/ InvalidateLock(p)
  \/ InvalidateBody(p)
  \/ ExifStart(p)
  \/ ExifFinish(p)

\* What Load does once it is past its guard.
LoadRuns(l) ==
  \/ LoadMetadata(l)
  \/ LoadItem(l)
  \/ LoadJoin(l)
  \/ PublishHead(l)
  \/ PublishFill(l)
  \/ PublishUnlock(l)
  \/ LoadReturn(l)

LiveNext ==
  \/ world = Waiting /\ \E p \in {"p1", "p2"} : ret[p].op = "none" /\ CallGet(p, "A")
  \/ world = Waiting /\ CallInvalidate("p3", "A")
  \/ \E n \in Names : \E s \in Stats : RemoteWrite(n, s)
  \/ \E l \in Loaders : LoadGuard(l)
  \/ \E l \in Loaders : LoadRuns(l)
  \/ \E p \in Procs : Runs(p)

\* A goroutine inside a call goes on whenever it can, also when what it
\* needs is a lock that others keep taking (sync.Mutex hands the lock to a
\* goroutine that keeps asking), and every fetcher called returns. Nothing
\* makes anyone call Get, Invalidate or Load, or write to the folder.
LiveFair ==
  /\ \A p \in {"p1", "p2", "p3"} : SF_vars(Runs(p))
  /\ SF_vars(LoadRuns("l1"))

LiveSpec == LiveInit /\ [][LiveNext]_vars /\ LiveFair

\* ---------------------------------------------------------------------------
\* Steps, as seen from outside
\* ---------------------------------------------------------------------------

TopKey(p) == Top(p).key

\* p leaves the critical section at the top of Get.
LookupStep(p) ==
  /\ At(p, "Get", "lookup")
  /\ Len(stack'[p]) = Len(stack[p])
  /\ Top(p)'.pc # "lookup"

\* p returns from Get on the path that waited for the entry.
WaitStep(p) == At(p, "Get", "wait") /\ Len(stack'[p]) < Len(stack[p])

\* p, the producer, returns from Get.
CommitStep(p) == At(p, "Get", "evict") /\ Len(stack'[p]) < Len(stack[p])

\* p invokes the fetcher of its key.
FetchStep(p) == At(p, "Get", "fetch") /\ stack'[p][Len(stack[p])].pc # "fetch"

\* p returns from Invalidate.
InvalidateStep(p) == At(p, "Invalidate", "invalidate") /\ Len(stack'[p]) = 0

\* The pair the innermost finished Get of p returned.
Delivered(p) ==
  IF Len(stack[p]) = 0 THEN <<ret[p].bytes, ret[p].err>>
  ELSE <<Top(p).sub.bytes, Top(p).sub.err>>

Stored(e) == <<entries[e].bytes, entries[e].err>>

AllFrames == {stack[x[1]][x[2]] : x \in Frames}

\* The producer of entry e has returned from Get.
Retired(e) ==
  /\ entries[e].done
  /\ ~\E f \in AllFrames : f.op = "Get" /\ f.pc \in Producing /\ f.entry = e

\* ---------------------------------------------------------------------------
\* C1
\* ---------------------------------------------------------------------------

Fetching(k) == {x \in Frames : LET f == stack[x[1]][x[2]]
                               IN f.op = "Get" /\ f.key = k /\ f.pc = "fetching"}

\* C1: under any interleaving of Get and Invalidate, at most one fetch for a
\* given key is executing at a time.
C1_SingleFlight == \A k \in Keys : Cardinality(Fetching(k)) <= 1

\* ---------------------------------------------------------------------------
\* C2
\* ---------------------------------------------------------------------------

\* C2 as stated: of the Get calls on one uncached key that overlap each other
\* (with no invalidation of the key meanwhile) only one invokes the fetcher: a
\* call that overlapped the producer of the key never becomes a producer.
C2_OnceForAll ==
  \A f \in AllFrames : f.op = "Get" /\ f.pc \in Producing => f.peer = "none"

\* C2, amended: a Get that overlaps the producer of its key invokes the fetcher
\* itself only after that fetch failed and its entry was evicted; as long as
\* the entry is in the map the call waits for it and returns the pair the
\* producer stored, the error included.
C2_OncePerEntry ==
  /\ [](\A f \in AllFrames : f.op = "Get" /\ f.pc \in Producing => f.peer # "fetching")
  /\ [][\A p \in Procs :
          WaitStep(p) /\ Top(p).peer = "fetching"
            => /\ entries[Top(p).entry].done
               /\ entries[Top(p).entry].key = TopKey(p)
               /\ Delivered(p)' = Stored(Top(p).entry)]_vars

\* Both goroutines called Get on the same key at the same time, the fetch
\* failed, and the one that waited returned the producer's error.
C2_Witness ==
  \E p, q \in Procs :
    /\ ret[p].op = "Get" /\ ret[p].hit /\ ret[p].peer = "fetching" /\ ret[p].err
    /\ ret[q].op = "Get" /\ ~ret[q].hit /\ ret[q].key = ret[p].key
    /\ ret[q].err /\ ret[q].bytes = ret[p].bytes

\* ---------------------------------------------------------------------------
\* C3
\* ---------------------------------------------------------------------------

\* C3: when D declares O as a dependency and both have an entry, neither has
\* one once Invalidate(O) returned; a Get that finds no entry for its key
\* becomes the producer and invokes the fetcher of that key, and the fetcher of
\* a derived key reads its source through the cache, so the next Get(D)
\* invokes both fetchers again.
C3_Cascade ==
  /\ [][\A p \in Procs : \A D \in Keys :
          InvalidateStep(p) /\ TopKey(p) \in deps[D]
          /\ cache[TopKey(p)] # 0 /\ cache[D] # 0
            => cache'[TopKey(p)] = 0 /\ cache'[D] = 0]_vars
  /\ [][\A p \in Procs :
          LookupStep(p) /\ cache[TopKey(p)] = 0 => Top(p)'.pc = "fetch"]_vars
  /\ [][\A p \in Procs :
          FetchStep(p)
            => IF deps[TopKey(p)] = {}
               THEN Top(p)'.pc = "fetching" /\ TopKey(p) \in Top(p)'.fetched
               ELSE /\ Len(stack'[p]) = Len(stack[p]) + 1
                    /\ Top(p)'.op = "Get" /\ Top(p)'.key \in deps[TopKey(p)]
                    /\ Top(p)'.pc = "lock"
                    /\ TopKey(p) \in stack'[p][Len(stack[p])].fetched]_vars

\* Invalidate("A") removed the entries of "A" and of "B", and a Get("B") by
\* the other goroutine then ran both fetchers.
C3_Witness ==
  \E p, q \in Procs :
    /\ ret[p].op = "Invalidate" /\ ret[p].key = "A" /\ ret[p].removed = {"A", "B"}
    /\ ret[q].op = "Get" /\ ret[q].key = "B" /\ ~ret[q].hit
    /\ ret[q].fetched = {"A", "B"} /\ ~ret[q].err
    /\ cache["A"] # 0 /\ cache["B"] # 0

\* ---------------------------------------------------------------------------
\* C4
\* ---------------------------------------------------------------------------

\* C4: with C depending on B and B on A, and all three cached, Invalidate(A)
\* removes the entries of A, B and C.
C4_Transitive ==
  [][\A p \in Procs : \A B, C \in Keys :
       InvalidateStep(p) /\ TopKey(p) \in deps[B] /\ B \in deps[C]
       /\ cache[TopKey(p)] # 0 /\ cache[B] # 0 /\ cache[C] # 0
         => cache'[TopKey(p)] = 0 /\ cache'[B] = 0 /\ cache'[C] = 0]_vars

\* In the three level chain, Invalidate("A") removed all three entries.
C4_Witness ==
  /\ world = Chain
  /\ \E p \in Procs :
       /\ ret[p].op = "Invalidate" /\ ret[p].key = "A"
       /\ ret[p].removed = {"A", "B", "C"}
       /\ \A k \in Keys : cache[k] = 0

\* ---------------------------------------------------------------------------
\* C5
\* ---------------------------------------------------------------------------

\* C5: once Invalidate(K) returned, the map holds no entry for K and none for
\* any key that depends on K directly or transitively, whether or not K had an
\* entry.
C5_Postcondition ==
  [][\A p \in Procs :
       InvalidateStep(p) => \A k \in Downstream(TopKey(p)) : cache'[k] = 0]_vars

\* ---------------------------------------------------------------------------
\* C6
\* ---------------------------------------------------------------------------

\* C6: Invalidate(K) leaves the entry of every key that is neither K nor
\* dependent on K where it is, with its contents, and a Get that finds the
\* entry of its key waits on it instead of invoking a fetcher.
C6_Frame ==
  /\ [][\A p \in Procs :
          InvalidateStep(p)
            => \A k \in Keys \ Downstream(TopKey(p)) :
                 /\ (cache'[k] = 0) = (cache[k] = 0)
                 /\ cache[k] # 0 => entries'[cache'[k]] = entries[cache[k]]]_vars
  /\ [][\A p \in Procs :
          LookupStep(p) /\ cache[TopKey(p)] # 0
            => /\ Top(p)'.pc = "wait"
               /\ Top(p)'.fetched = {}
               /\ entries'[Top(p)'.entry] = entries[cache[TopKey(p)]]]_vars

\* Invalidate("C") removed an entry while the unrelated "A" and "B" stayed
\* cached, and Invalidate("B") removed an entry while "A" stayed.
C6_Witness ==
  \E p \in Procs :
    /\ ret[p].op = "Invalidate" /\ ret[p].removed # {}
    /\ \E k \in Keys \ Downstream(ret[p].key) : cache[k] # 0 /\ entries[cache[k]].done
    /\ ret[p].key = "C" => cache["A"] # 0 /\ cache["B"] # 0

\* ---------------------------------------------------------------------------
\* C7
\* ---------------------------------------------------------------------------

\* C7: when the producing Get for K returns an error the map holds no entry
\* for K, and no later lookup finds the entry of that failed fetch: the next
\* Get(K) fetches again.
C7_ErrorNotKept ==
  /\ [][\A p \in Procs :
          CommitStep(p) /\ entries[Top(p).entry].err => cache'[TopKey(p)] = 0]_vars
  /\ [][\A p \in Procs :
          LookupStep(p) /\ cache[TopKey(p)] # 0
            => ~(entries[cache[TopKey(p)]].err /\ Retired(cache[TopKey(p)]))]_vars

\* A producer returned the error of its fetch, its key has no entry, and the
\* other goroutine's Get on that key is a producer again.
C7_Witness ==
  \E p, q \in Procs :
    /\ ret[p].op = "Get" /\ ret[p].err /\ ~ret[p].hit
    /\ At(q, "Get", "fetch") /\ TopKey(q) = ret[p].key /\ Top(q).peer = "none"

\* ---------------------------------------------------------------------------
\* C8
\* ---------------------------------------------------------------------------

\* C8: a Get(K) that starts after a fetch for K completed with an error never
\* returns that stored error without a new fetch: its lookup does not find the
\* entry of the failed fetch.
C8_EvictedAtOnce ==
  [][\A p \in Procs :
       LookupStep(p) /\ Top(p).stale # 0 => cache[TopKey(p)] # Top(p).stale]_vars

\* ---------------------------------------------------------------------------
\* C9
\* ---------------------------------------------------------------------------

\* What a completed fetch leaves in an entry: an error with no bytes, or bytes.
Completed(pair) == IF pair[2] THEN pair[1] = 0 ELSE pair[1] # 0

\* C9: no Get returns the bytes or error of an entry before the fetch that
\* populates it has completed: the pair a Get returned is never that of a
\* placeholder, and a Get that found an entry returns, once the entry's fetch
\* is done, exactly the pair the producer stored in it.
C9_VisibleWhenDone ==
  /\ [](\A p \in Procs : ret[p].op = "Get" => Completed(<<ret[p].bytes, ret[p].err>>))
  /\ [](\A f \in AllFrames : f.sub.has => Completed(<<f.sub.bytes, f.sub.err>>))
  /\ [][\A p \in Procs :
          WaitStep(p) => /\ entries[Top(p).entry].done
                         /\ Delivered(p)' = Stored(Top(p).entry)]_vars

\* A Get that found the placeholder of a running fetch has returned the bytes
\* of that fetch.
C9_Witness ==
  \E p \in Procs :
    /\ ret[p].op = "Get" /\ ret[p].hit /\ ret[p].peer = "fetching"
    /\ ~ret[p].err /\ ret[p].bytes # 0

\* ---------------------------------------------------------------------------
\* C10
\* ---------------------------------------------------------------------------

\* C10: once Get(K) has succeeded, every further Get(K) finds the entry with
\* the same bytes and invokes no fetcher, until K is invalidated.
C10_ReadThrough ==
  [][\A p \in Procs :
       LookupStep(p) /\ good[TopKey(p)] # 0
         => /\ cache[TopKey(p)] # 0
            /\ Stored(cache[TopKey(p)]) = <<good[TopKey(p)], FALSE>>]_vars

\* ---------------------------------------------------------------------------
\* C11
\* ---------------------------------------------------------------------------

\* The keys other than k that are derived from the same source as k.
Siblings(k) == {x \in world.keys \ {k} : deps[x] = deps[k]}

\* C11: for a caller on its own, the fetcher of a derived key is invoked with
\* the lock free and reads its source through the same cache, and the call can
\* always go on (no deadlock); once Get(Derived) returned without error both
\* the derived key and the key it is derived from are cached; and a Get of a
\* derived key while another key derived from the same source is cached
\* invokes the fetcher of the derived key and no other.
C11_DerivedThrough ==
  /\ [][\A p \in Procs :
          world.procs = {p} /\ FetchStep(p) /\ deps[TopKey(p)] # {}
            => /\ cacheLock = "" /\ cacheLock' = ""
               /\ Len(stack'[p]) = Len(stack[p]) + 1
               /\ Top(p)'.op = "Get" /\ Top(p)'.key \in deps[TopKey(p)]]_vars
  /\ [](\A p \in Procs : world.procs = {p} /\ Active(p) => ENABLED Next)
  /\ [](\A p \in Procs :
          world.procs = {p} /\ ~Active(p) /\ ret[p].op = "Get" /\ ~ret[p].err
            => \A k \in Upstream(ret[p].key) :
                 cache[k] # 0 /\ entries[cache[k]].done /\ ~entries[cache[k]].err)
  /\ [][\A p \in Procs :
          (/\ world.procs = {p} /\ CommitStep(p) /\ Len(stack[p]) = 1
           /\ deps[TopKey(p)] # {}
           /\ \E x \in Siblings(TopKey(p)) : cache[x] # 0)
            => ret'[p].fetched = {TopKey(p)}]_vars

\* With "B" and "C" both derived from "A": Get("C") after Get("B") ran the
\* fetcher of "C" alone, and all three keys are cached.
C11_Witness ==
  /\ world = Fork
  /\ \E p \in Procs :
       /\ ret[p].op = "Get" /\ ret[p].key = "C" /\ ~ret[p].err
       /\ ret[p].fetched = {"C"}
  /\ \A k \in Keys : cache[k] # 0 /\ entries[cache[k]].done

\* ---------------------------------------------------------------------------
\* Album: steps, as seen from outside
\* ---------------------------------------------------------------------------

\* Caller l is between the guard of Load and its return.
InLoad(l) == ld[l].pc # "idle"

\* l passes through the guard of Load.
GuardStep(l) == ld[l].pc = "idle" /\ ld'[l] # ld[l]

\* The catalog and the revision token are left as they are.
CatalogKept ==
  /\ lastHash' = lastHash
  /\ photoMap' = photoMap
  /\ (photoList' = 0) = (photoList = 0)
  /\ photoList # 0 => lists'[photoList'] = lists[photoList]

\* ---------------------------------------------------------------------------
\* C12
\* ---------------------------------------------------------------------------

\* C12: at most one caller of Load is between the guard and the return, and
\* a Load that reaches the guard while another run is in progress returns the
\* busy error at once (it does not wait its turn) without having listed the
\* folder, called the cache or changed the catalog or the revision token.
C12_OneRun ==
  /\ [](Cardinality({l \in Loaders : InLoad(l)}) <= 1)
  /\ [][\A l \in Loaders :
          GuardStep(l) /\ (\E m \in Loaders \ {l} : InLoad(m))
            => /\ ld'[l] = [NoLoad EXCEPT !.res = "busy"]
               /\ CatalogKept
               /\ UNCHANGED <<cacheVars, remote, job, loading>>]_vars

\* One caller was turned away with the busy error while the other is in the
\* middle of its run.
C12_Witness ==
  \E l, m \in Loaders :
    /\ ld[l].pc = "idle" /\ ld[l].res = "busy"
    /\ ld[m].pc \in {"diff", "join", "fill"}

\* ---------------------------------------------------------------------------
\* C13
\* ---------------------------------------------------------------------------

\* The name index of a published list.
IndexOf(s) ==
  [n \in Names |-> IF \E i \in 1 .. Len(s) : s[i].Filename = n
                   THEN s[CHOOSE i \in 1 .. Len(s) : s[i].Filename = n]
                   ELSE NoPhoto]

\* The name indexes of the fully published snapshots a reader may see now:
\* while a run is publishing, the one it found and the one it publishes.
Indexes ==
  IF \E l \in Loaders : ld[l].pc \in {"fill", "unlock"}
  THEN {ld[l].was : l \in {x \in Loaders : ld[x].pc \in {"fill", "unlock"}}}
       \cup {IndexOf(lists[photoList])}
  ELSE {photoMap}

\* Reader r looks a name up in the catalog (Photo or Thumbnail).
ReadStep(r) == rd'[r] # rd[r] /\ rd'[r].op \in {"Photo", "Thumbnail"}

\* C13: whatever a Load is doing, a lookup of a name by Photo or Thumbnail
\* answers as the name index of one fully published snapshot does: it finds
\* the Photo that snapshot has for the name, or nothing if that snapshot does
\* not have the name.
C13_WholeSnapshot ==
  [][\A r \in Procs :
       ReadStep(r) => \E m \in Indexes : rd'[r].photo = m[rd'[r].name]]_vars

\* ---------------------------------------------------------------------------
\* C14
\* ---------------------------------------------------------------------------

\* C14: the sequence a reader got from Photos() stays as it is, items and
\* created timestamps, whatever the synchronization runs do, for as long as
\* the reader holds it (until its next call of Photos).
C14_Stable ==
  [][\A r \in Procs :
       held[r] # 0
         => \/ Photos(r)
            \/ held'[r] # 0 /\ lists'[held'[r]] = lists[held[r]]]_vars

\* A reader holds a list with a photo in it while the album has published a
\* list that differs from it.
C14_Witness ==
  \E r \in Procs :
    /\ held[r] # 0 /\ Len(lists[held[r]]) > 0
    /\ photoList # 0 /\ Len(lists[photoList]) > 0
    /\ lists[photoList] # lists[held[r]]
    /\ \A l \in Loaders : ~InLoad(l)

\* ---------------------------------------------------------------------------
\* C15
\* ---------------------------------------------------------------------------

\* l takes one turn of the loop over the listing.
ItemStep(l) == ld[l].pc = "diff" /\ ld'[l].i = ld[l].i + 1

\* The item of the listing l is at, and the catalog's Photo of that name.
Item(l) == ld[l].entry.Contents[ld[l].i]
Known(l) == photoMap[Item(l).Path]

\* C15: the fingerprint tells two listings apart exactly when they differ in
\* size or in one of the two modification times. A listed item is dirty if and
\* only if the catalog has no Photo of its name or that Photo's fingerprint
\* differs from the one computed from the listing. A dirty item gets a new
\* Photo made from the listing, its original key is invalidated and a
\* loadExifInfo is started for it; any other item gets the catalog's Photo,
\* unchanged, and nothing else happens.
C15_Diff ==
  /\ [](\A s, t \in Stats : hash(s) = hash(t) <=> s = t)
  /\ [][\A l \in Loaders :
          ItemStep(l)
            => LET changed == Known(l) = NoPhoto \/ Known(l).Hash # hash(Item(l))
                   w == world.workers[ld[l].i]
               IN IF changed
                  THEN /\ ld'[l].dirty = ld[l].dirty \cup {Item(l).Path}
                       /\ lists'[ld'[l].photos][ld[l].i] = Fresh(Item(l))
                       /\ cache'[OrigKey(Item(l).Path)] = 0
                       /\ job'[w] = [loader |-> l, i |-> ld[l].i, pc |-> "spawned"]
                       /\ ld'[l].wg = ld[l].wg + 1
                  ELSE /\ ld'[l].dirty = ld[l].dirty
                       /\ Item(l).Path \notin ld[l].dirty
                       /\ lists'[ld'[l].photos][ld[l].i] = Known(l)
                       /\ ld'[l].wg = ld[l].wg
                       /\ UNCHANGED <<cacheVars, job>>]_vars

\* A run went through a listing of two items, found one dirty and copied the
\* other, whose created time had come from its EXIF data.
C15_Witness ==
  \E l \in Loaders :
    /\ ld[l].pc = "join" /\ Len(ld[l].entry.Contents) = 2
    /\ Cardinality(ld[l].dirty) = 1
    /\ \E i \in 1 .. 2 :
         LET p == lists[ld[l].photos][i]
         IN p.Filename \notin ld[l].dirty /\ p.ExifCreated = DateTime(1)

\* ---------------------------------------------------------------------------
\* C16
\* ---------------------------------------------------------------------------

\* The item l is at differs from what the catalog has.
Changed(l) == Known(l) = NoPhoto \/ Known(l).Hash # hash(Item(l))

\* C16: a synchronization run removes an entry from the cache only in the turn
\* of a changed item, and then only for that item's original key or a key
\* derived from it; the entries of all other keys stay as they are; and the
\* run starts a loadExifInfo, hence a Get, only for names it found changed.
C16_OthersKept ==
  /\ [][\A l \in Loaders :
          ItemStep(l)
            => \A k \in Keys :
                 IF Changed(l) /\ k \in Downstream(OrigKey(Item(l).Path))
                 THEN TRUE
                 ELSE /\ (cache'[k] = 0) = (cache[k] = 0)
                      /\ cache[k] # 0 => entries'[cache'[k]] = entries[cache[k]]]_vars
  /\ [][\A l \in Loaders :
          ld'[l] # ld[l] /\ ~ItemStep(l)
            => \A k \in Keys : /\ (cache'[k] = 0) = (cache[k] = 0)
                                /\ cache[k] # 0 => entries'[cache'[k]] = entries[cache[k]]]_vars
  /\ [][\A p \in Procs :
          job'[p].pc = "spawned" /\ job[p].pc # "spawned"
            => \E l \in Loaders :
                 /\ ItemStep(l) /\ Changed(l) /\ job'[p].loader = l /\ job'[p].i = ld[l].i]_vars
  /\ [][\A p \in Procs :
          job[p].pc = "spawned" /\ job'[p].pc = "get"
            => /\ JobName(p) \in ld[job[p].loader].dirty
               /\ Top(p)'.op = "Get" /\ Top(p)'.key = OrigKey(JobName(p))]_vars

\* In a run over two items only "c" was dirty, and the original of "a", cached
\* by a Get before the run, is still in the cache after the loop.
C16_Witness ==
  \E l \in Loaders :
    /\ ld[l].pc = "join" /\ Len(ld[l].entry.Contents) = 2
    /\ ld[l].dirty = {"c"}
    /\ cache["A"] # 0 /\ entries[cache["A"]].done /\ cache["C"] = 0

\* ---------------------------------------------------------------------------
\* C17
\* ---------------------------------------------------------------------------

\* The run of l has begun to publish or has published.
Publishing(l) == ld[l].pc \in {"publish", "fill", "unlock"}

\* C17: when the loadExifInfo of a dirty item is started the Invalidate of
\* its original key has returned (the key has no entry) and its Get has not
\* begun; that Get begins only in a started loadExifInfo of the run; and from
\* the sort to the end of the publication no loadExifInfo of the run is left:
\* all have called wg.Done().
C17_Phases ==
  /\ [][\A p \in Procs :
          job'[p].pc = "spawned" /\ job[p].pc # "spawned"
            => /\ cache'[OrigKey(JobName(p)')] = 0
               /\ JobName(p)' \in ld'[job'[p].loader].dirty
               /\ ~Active(p)']_vars
  /\ [][\A p \in Procs :
          job'[p].pc = "get" /\ job[p].pc # "get"
            => job[p].pc = "spawned" /\ ld[job[p].loader].pc \in {"diff", "join"}]_vars
  /\ [](\A l \in Loaders :
          Publishing(l) => ld[l].wg = 0 /\ \A p \in Procs : job[p].loader # l)

\* A run is publishing a list whose dirty item carries the created time its
\* loadExifInfo read from the download.
C17_Witness ==
  \E l \in Loaders :
    /\ ld[l].pc = "fill" /\ ld[l].dirty # {}
    /\ \E i \in 1 .. Len(lists[photoList]) :
         /\ lists[photoList][i].Filename \in ld[l].dirty
         /\ lists[photoList][i].ExifCreated = DateTime(1)

\* ---------------------------------------------------------------------------
\* C18
\* ---------------------------------------------------------------------------

\* C18: when a run publishes its catalog, every cache entry of the original
\* key of one of its dirty items, or of a key derived from it, comes from a
\* fetch that started after the run invalidated the item.
C18_FreshBehind ==
  \A l \in Loaders :
    ld[l].pc \in {"fill", "unlock"}
      => \A n \in ld[l].dirty : \A k \in Downstream(OrigKey(n)) :
           cache[k] # 0 => ~entries[cache[k]].old

\* ---------------------------------------------------------------------------
\* C19
\* ---------------------------------------------------------------------------

\* No item of s was created earlier than one that follows it.
Descending(s) ==
  \A i, j \in 1 .. Len(s) : i < j => s[i].ExifCreated >= s[j].ExifCreated

\* C19: the list the album has published, and every list Photos() returned,
\* is in descending order of created time.
C19_Sorted ==
  /\ photoList # 0 => Descending(lists[photoList])
  /\ \A r \in Procs : held[r] # 0 => Descending(lists[held[r]])

\* Photos() returned two photos with "c", listed second, in front because it
\* was created later.
C19_Witness ==
  \E r \in Procs :
    /\ held[r] # 0 /\ Len(lists[held[r]]) = 2
    /\ lists[held[r]][1].Filename = "c"
    /\ lists[held[r]][1].ExifCreated > lists[held[r]][2].ExifCreated

\* ---------------------------------------------------------------------------
\* C20
\* ---------------------------------------------------------------------------

\* l gets the answer of Metadata.
MetaStep(l) == ld[l].pc = "metadata" /\ ld'[l].pc # "metadata"

\* C20: when the folder still has the hash the album saw last and Metadata
\* answers (with the 304), Load goes straight to its return with no error;
\* neither that step nor the return changes the catalog, the revision token
\* or the cache, calls Invalidate or starts a loadExifInfo.
C20_NotModified ==
  /\ [][\A l \in Loaders :
          MetaStep(l) /\ lastHash = remote.hash /\ ld'[l].res # "metadata"
            => /\ ld'[l] = [ld[l] EXCEPT !.pc = "return", !.res = "nil", !.path = "304"]
               /\ CatalogKept
               /\ UNCHANGED <<cacheVars, job, remote>>]_vars
  /\ [][\A l \in Loaders :
          ld[l].pc = "return" /\ ld[l].path = "304" /\ ld'[l] # ld[l]
            => /\ ld'[l] = [NoLoad EXCEPT !.res = "nil", !.path = "304"]
               /\ CatalogKept
               /\ UNCHANGED <<cacheVars, job, remote>>]_vars
  /\ [](\A l \in Loaders :
          ld[l].path = "304"
            => ld[l].dirty = {} /\ ld[l].wg = 0 /\ \A p \in Procs : job[p].loader # l)

\* A Load over an unchanged folder returned without error and the catalog
\* still holds the photo, with its original in the cache.
C20_Witness ==
  \E l \in Loaders :
    /\ ld[l].pc = "idle" /\ ld[l].path = "304" /\ ld[l].res = "nil"
    /\ lastHash = remote.hash
    /\ photoMap["a"] # NoPhoto /\ cache["A"] # 0 /\ entries[cache["A"]].done

\* ---------------------------------------------------------------------------
\* C21
\* ---------------------------------------------------------------------------

\* The run of l takes a step.
RunStep(l) == ld'[l] # ld[l]

\* The errors Load returns from a run that passed the guard.
Failures == {"metadata", "notdir"}

\* C21: the catalog and the revision token change only in the publication of
\* a run, and that run returns no error. A run whose Metadata call fails, or
\* whose path is not a directory, goes straight to its return with the error;
\* neither the guard, nor that step, nor the return changes the catalog, the
\* revision token or the cache, and such a run has not invalidated anything
\* or started a loadExifInfo.
C21_FailedRunKeeps ==
  /\ [][~CatalogKept
          => \E l \in Loaders : ld[l].pc \in {"publish", "fill"} /\ RunStep(l)]_vars
  /\ [][\A l \in Loaders :
          ld[l].pc = "unlock" /\ RunStep(l) => ld'[l].res = "nil"]_vars
  /\ [][\A l \in Loaders :
          GuardStep(l) => CatalogKept /\ UNCHANGED <<cacheVars, job>>]_vars
  /\ [][\A l \in Loaders :
          MetaStep(l) /\ (ld'[l].res = "metadata" \/ ~remote.dir)
            => /\ ld'[l].res \in Failures
               /\ ~remote.dir /\ ld'[l].res # "metadata" => ld'[l].res = "notdir"
               /\ ld'[l] = [ld[l] EXCEPT !.pc = "return", !.res = ld'[l].res]
               /\ CatalogKept
               /\ UNCHANGED <<cacheVars, job, remote>>]_vars
  /\ [][\A l \in Loaders :
          ld[l].pc = "return" /\ ld[l].res \in Failures /\ RunStep(l)
            => /\ ld'[l] = [NoLoad EXCEPT !.res = ld[l].res]
               /\ CatalogKept
               /\ UNCHANGED <<cacheVars, job, remote>>]_vars
  /\ [](\A l \in Loaders :
          ld[l].res \in Failures
            => /\ ld[l].dirty = {} /\ ld[l].wg = 0 /\ ld[l].photos = 0
               /\ \A p \in Procs : job[p].loader # l)

\* After a run that cataloged the photo and cached its original, the folder
\* was replaced by a plain file and the next run returned the error, with the
\* catalog, the revision token and the cache as the first run left them.
C21_Witness ==
  \E l \in Loaders :
    /\ ld[l].pc = "idle" /\ ld[l].res = "notdir"
    /\ ~remote.dir /\ lastHash = 1
    /\ photoMap["a"] # NoPhoto /\ photoList # 0 /\ Len(lists[photoList]) = 1
    /\ cache["A"] # 0 /\ entries[cache["A"]].done

\* ---------------------------------------------------------------------------
\* C22
\* ---------------------------------------------------------------------------

\* The number a * 2^k, in eight digits: no carry is lost.
RECURSIVE Scaled(_, _)
Scaled(a, k) == IF k = 0 THEN a \o <<0, 0, 0, 0>> ELSE Times(Scaled(a, k - 1), 2)

\* The Duration c is the number x.
Is(c, x) == /\ c = SubSeq(x, 1, 4)
            /\ x[4] < 2 ^ 15
            /\ \A i \in 5 .. 8 : x[i] = 0

\* C22: in the loop of Monitor the wait is the configured interval after a
\* run that returned no error (a not-modified run included), and after k
\* failed runs in a row since the last such run it is the interval times 2^k.
C22_Backoff ==
  mon.pc \in {"sleep", "call"} => Is(mon.c, Scaled(mon.interval, mon.fails))

\* ---------------------------------------------------------------------------
\* C23
\* ---------------------------------------------------------------------------

\* C23: with the goroutine of NewPhotoSite as the only caller of Load, the
\* loop of Monitor runs only after the first Load returned without error;
\* the loop goes back to sleep only when the Load it called has returned;
\* while it sleeps no run is in progress; and no Load, the first one or one
\* called by the loop, finds another run in progress or returns the busy
\* error.
C23_LoopNeverBusy ==
  /\ [](mon.pc \in {"sleep", "call"} => mon.first = "nil")
  /\ [](mon.pc = "dead" => mon.first \in Failures)
  /\ [][mon.pc = "call" /\ mon'.pc = "sleep"
          => \A l \in world.loaders :
               ld[l].pc = "idle" /\ ld[l].res # "none" /\ ~loading]_vars
  /\ [](mon.pc \in {"sleep", "dead"} => ~loading /\ \A l \in Loaders : ~InLoad(l))
  /\ [][\A l \in Loaders :
          GuardStep(l) /\ ld[l].res = "none" => ~loading /\ InLoad(l)']_vars
  /\ [](\A l \in Loaders : ld[l].res # "busy")

\* The loop, started after a first Load without error, has seen a run fail
\* and the run after it publish the changed folder.
C23_Witness ==
  \E l \in Loaders :
    /\ mon.pc = "call" /\ mon.first = "nil" /\ mon.fails = 1
    /\ ld[l].pc = "idle" /\ ld[l].res = "nil" /\ ld[l].path = "full"
    /\ lastHash = 2

\* ---------------------------------------------------------------------------
\* C24
\* ---------------------------------------------------------------------------

\* C24: a Photo or Thumbnail call for a name the name index does not hold
\* returns the no-such-photo error: it does not call Get, so no fetcher runs
\* and the cache, its entries included, stays as it is, whether or not the
\* original or the thumbnail of that name is still cached.
C24_NotFound ==
  [][\A r \in Procs :
       ReadStep(r) /\ photoMap[rd'[r].name] = NoPhoto
         => /\ ~rd'[r].found /\ rd'[r].photo = NoPhoto
            /\ ~Active(r)'
            /\ UNCHANGED <<cache, entries, cacheSize, cacheLock, stack, good>>]_vars

\* The file was renamed and a run has published the catalog without "a":
\* Thumbnail("a") returned the error while the original and the thumbnail of
\* "a" are still in the cache.
C24_Witness ==
  \E r \in Procs :
    /\ rd[r].op = "Thumbnail" /\ rd[r].name = "a" /\ ~rd[r].found
    /\ photoMap["a"] = NoPhoto /\ photoMap["c"] # NoPhoto
    /\ \A l \in Loaders : ~InLoad(l)
    /\ cache["A"] # 0 /\ entries[cache["A"]].done
    /\ cache["B"] # 0 /\ entries[cache["B"]].done

\* ---------------------------------------------------------------------------
\* C25
\* ---------------------------------------------------------------------------

\* The loadExifInfo that p runs ends.
ExifStep(p) == job[p].pc = "get" /\ job'[p].pc = "none"

\* The run of l has filled the name index with its list.
Published(l) == ld[l].pc = "unlock" \/ (ld[l].pc = "return" /\ ld[l].path = "full")

\* The item of the listing of l with name n.
Listing(l, n) ==
  LET c == ld[l].entry.Contents
  IN c[CHOOSE i \in 1 .. Len(c) : c[i].Path = n]

\* C25: a loadExifInfo whose download succeeded but whose bytes carry no
\* readable date leaves the Photo as Load made it, with the client's
\* modification time of the listing as its created time, and calls wg.Done()
\* like any other; the run's wait group counts exactly the loadExifInfo that
\* have not ended; and the run publishes such an item with its new
\* fingerprint and that created time, and returns no error.
C25_ExifFailure ==
  /\ [][\A p \in Procs :
          ExifStep(p) /\ ~ret[p].err /\ DateTime(ret[p].bytes) = 0
            => LET l == job[p].loader
                   i == job[p].i
                   e == ld[l].entry.Contents[i]
               IN /\ lists'[ld'[l].photos][i] = lists[ld[l].photos][i]
                  /\ lists'[ld'[l].photos][i].Filename = e.Path
                  /\ lists'[ld'[l].photos][i].ExifCreated = e.ClientMtime
                  /\ ld'[l].wg = ld[l].wg - 1
                  /\ ld'[l].how[e.Path] = "notime"]_vars
  /\ [](\A l \in Loaders :
          InLoad(l) => ld[l].wg = Cardinality({p \in Procs : job[p].loader = l}))
  /\ [](\A l \in Loaders : \A n \in Names :
          Published(l) /\ ld[l].how[n] = "notime"
            => /\ photoMap[n].Filename = n
               /\ photoMap[n].Hash = hash(Listing(l, n))
               /\ photoMap[n].ExifCreated = Listing(l, n).ClientMtime
               /\ \E i \in 1 .. Len(lists[photoList]) : lists[photoList][i] = photoMap[n]
               /\ ld[l].pc = "return" => ld[l].res = "nil")

\* A run over the rewritten file, whose download carries no date, returns
\* without error having published the photo with the client's new
\* modification time as its created time; the bytes are in the cache.
C25_Witness ==
  \E l \in Loaders :
    /\ ld[l].pc = "return" /\ ld[l].path = "full" /\ ld[l].res = "nil"
    /\ ld[l].how["a"] = "notime"
    /\ photoMap["a"].ExifCreated = 2 /\ photoMap["a"].DropboxModified = 3
    /\ cache["A"] # 0 /\ entries[cache["A"]].done /\ DateTime(entries[cache["A"]].bytes) = 0

\* ---------------------------------------------------------------------------
\* C26
\* ---------------------------------------------------------------------------

\* The original keys of the items that a run in progress found changed.
Renewed == {OrigKey(n) : n \in UNION {ld[l].dirty : l \in {x \in Loaders : InLoad(x)}}}

\* C26: in the turn of an item whose fingerprint is unchanged the run calls
\* nothing of the cache and starts no loadExifInfo; in the turn of an item
\* whose fingerprint changed it removes the entry of the original key and
\* starts one loadExifInfo, which calls Get once; and the original is then
\* fetched once: after a Get has returned the newly fetched bytes of the
\* original, no fetcher is invoked for that key again while the run lasts,
\* whatever the readers call.
C26_OneFetch ==
  /\ [][\A l \in Loaders :
          ItemStep(l) /\ ~Changed(l) => UNCHANGED <<cacheVars, job>>]_vars
  /\ [][\A l \in Loaders :
          ItemStep(l) /\ Changed(l)
            => /\ cache'[OrigKey(Item(l).Path)] = 0
               /\ Cardinality({p \in Procs : job'[p] # job[p]}) = 1]_vars
  /\ [][\A p \in Procs :
          At(p, "Get", "fetch") /\ stack'[p] # stack[p] /\ TopKey(p) \in Renewed
            => good[TopKey(p)] = 0]_vars

\* ---------------------------------------------------------------------------
\* C27
\* ---------------------------------------------------------------------------

\* C27: a call of RegisterFetcher with a value that is not a function of
\* exactly one argument returning exactly ([]byte, error) panics and leaves
\* the registered fetchers as they were, while a call with such a function
\* returns and registers it for the type of its argument; and a Get that comes
\* to fetch a key of a type with no registered fetcher panics: every frame of
\* the goroutine is gone and nothing is returned, neither bytes nor an error.
C27_Fatal ==
  /\ [][\A p \in Procs :
          ret'[p] # ret[p] /\ ret'[p].shape # NoShape
            => IF /\ ret'[p].shape.kind = "func"
                  /\ Len(ret'[p].shape.ins) = 1
                  /\ ret'[p].shape.outs = <<"[]byte", "error">>
               THEN /\ ret'[p].op = "RegisterFetcher"
                    /\ fetchers' = fetchers \cup {ret'[p].shape.ins[1]}
               ELSE /\ ret'[p].op = "panic"
                    /\ fetchers' = fetchers]_vars
  /\ [][\A p \in Procs :
          /\ At(p, "Get", "fetch")
          /\ stack'[p] # stack[p]
          /\ TypeOf(TopKey(p)) \notin fetchers
          => /\ ret'[p].op = "panic"
             /\ ret'[p].key = TopKey(p)
             /\ ~ret'[p].err /\ ret'[p].bytes = 0
             /\ stack'[p] = <<>>]_vars
  /\ [][\A p \in Procs :
          ret'[p] # ret[p] /\ ret'[p].op = "Get"
            => TypeOf(ret'[p].key) \in fetchers]_vars

\* A function of one argument with the wrong results has just been refused,
\* after a Get of the derived key panicked inside its fetcher, in the Get of
\* the original key, for which nothing is registered: the placeholders of both
\* keys are left in the map, never completed.
C27_Witness ==
  \E p \in Procs :
    /\ ~Active(p)
    /\ ret[p].op = "panic"
    /\ ret[p].shape.kind = "func"
    /\ ret[p].shape.ins = <<"original">>
    /\ ret[p].shape.outs = <<"[]byte">>
    /\ fetchers = {"derived"}
    /\ cache["B"] # 0 /\ ~entries[cache["B"]].done
    /\ cache["A"] # 0 /\ ~entries[cache["A"]].done

\* ---------------------------------------------------------------------------
\* C28
\* ---------------------------------------------------------------------------

\* C28: the goroutine that holds the map lock is between a Lock and the next
\* Unlock of Get or Invalidate, never in a fetcher, about to call one, or
\* waiting on an entry; and whatever the fetches of A by p1 do, even if one
\* of them never returns, every Get of C, hit or miss, and every Invalidate
\* of A or C that p2 calls returns.
C28_LockNotHeld ==
  /\ [](\A p \in Procs :
          cacheLock = p => /\ Active(p)
                           /\ Top(p).pc \in {"lookup", "evict", "invalidate"})
  /\ [](\A p \in Procs :
          Active(p) /\ Top(p).pc \in {"fetch", "fetching", "wait"} => cacheLock # p)
  /\ (Active("p2") ~> ~Active("p2"))

\* p1 is inside the fetcher of A, and p2, whose last call was an Invalidate
\* that found something to remove, holds the lock in a Get of C, which is
\* cached.
C28_Witness ==
  /\ At("p1", "Get", "fetching") /\ TopKey("p1") = "A"
  /\ cacheLock = "p2"
  /\ At("p2", "Get", "lookup") /\ TopKey("p2") = "C"
  /\ cache["C"] # 0 /\ entries[cache["C"]].done

\* ---------------------------------------------------------------------------
\* C29
\* ---------------------------------------------------------------------------

\* C29: in every state in which no goroutine is inside Get or Invalidate,
\* cacheSize is the sum of the lengths of the bytes of the entries in the map.
C29_Accounting ==
  (\A p \in Procs : ~Active(p)) => cacheSize = Resident

\* ---------------------------------------------------------------------------
\* C30
\* ---------------------------------------------------------------------------

\* The names of the catalog that the listing of the run of l does not have.
Gone(l) ==
  {n \in Names : /\ photoMap[n] # NoPhoto
                 /\ \A i \in 1 .. Len(ld[l].entry.Contents) :
                      ld[l].entry.Contents[i].Path # n}

\* Where the calls of stack st are: the pointers they hold left out.
Where(st) == [i \in 1 .. Len(st) |-> <<st[i].op, st[i].key, st[i].pc>>]

\* C30: no step of a run of Load, and no step of a loadExifInfo it started,
\* removes, replaces or alters the cache entry of the original key of an item
\* that is in the catalog and not in the run's listing, or of a key derived
\* from it.
C30_DeletedKept ==
  [][\A l \in Loaders :
       /\ ld[l].pc \in {"diff", "join"}
       /\ \/ RunStep(l)
          \/ \E p \in Procs : /\ job[p].loader = l
                               /\ \/ job'[p] # job[p]
                                  \/ Where(stack'[p]) # Where(stack[p])
       => \A n \in Gone(l) :
            \A k \in Downstream(OrigKey(n)) :
              /\ (cache'[k] = 0) = (cache[k] = 0)
              /\ cache[k] # 0 => entries'[cache'[k]] = entries[cache[k]]]_vars

\* A run whose listing had "c" and not "a", which was in the catalog, has
\* published and returned nil: the original and the thumbnail of "a" are in
\* the cache as they were and the original of "c" has been fetched.
C30_Witness ==
  \E l \in Loaders :
    /\ ld[l].pc = "return" /\ ld[l].res = "nil" /\ ld[l].path = "full"
    /\ ld[l].was["a"] # NoPhoto
    /\ ld[l].dirty = {"c"}
    /\ photoMap["a"] = NoPhoto
    /\ cache["A"] # 0 /\ entries[cache["A"]].done /\ ~entries[cache["A"]].err
    /\ cache["B"] # 0 /\ entries[cache["B"]].done /\ ~entries[cache["B"]].err
    /\ ld[l].how["c"] # ""

\* ---------------------------------------------------------------------------
\* C31
\* ---------------------------------------------------------------------------

\* C31: when a run has published and is about to return nil, every item that
\* was in the catalog before the publication and that the run's listing does
\* not have is still in the catalog: in the name index and in the list.
C31_DeletedStay ==
  \A l \in Loaders :
    ld[l].pc = "return" /\ ld[l].path = "full"
      => \A n \in Names :
           /\ ld[l].was[n] # NoPhoto
           /\ \A i \in 1 .. Len(ld[l].entry.Contents) : ld[l].entry.Contents[i].Path # n
           => /\ photoMap[n] # NoPhoto
              /\ \E i \in 1 .. Len(lists[photoList]) : lists[photoList][i].Filename = n

\* ---------------------------------------------------------------------------
\* C32
\* ---------------------------------------------------------------------------

\* The Photo that the listing l holds for n makes by itself: nothing of it
\* comes from a fetch.
Bare(l, n) ==
  [Filename |-> n, Size |-> Listing(l, n).Bytes, Hash |-> hash(Listing(l, n)),
   DropboxModified |-> Listing(l, n).Modified, ExifCreated |-> Listing(l, n).ClientMtime]

C33_Returns ==
  /\ \A p \in {"p1", "p2", "p3"} : []<>(~Active(p) /\ job[p].pc = "none")
  /\ []<>~InLoad("l1")

\* p2 waits on an entry that is not completed and that the map no longer
\* holds: Invalidate removed it while its fetch was in flight.
C33_Witness ==
  /\ At("p2", "Get", "wait")
  /\ ~entries[Top("p2").entry].done
  /\ cache["A"] # Top("p2").entry
  /\ At("p1", "Get", "fetching") /\ Top("p1").entry = Top("p2").entry
  /\ ret["p3"].op = "Invalidate" /\ ret["p3"].removed # {}

\* ---------------------------------------------------------------------------
\* C34
\* ---------------------------------------------------------------------------

\* C34: when a producer whose fetch of K failed returns, an entry that the
\* map holds for K and that is not the producer's own stays in the map; and
\* the step does not leave in the map the bytes of a key derived from K
\* without an entry for K.
C34_OwnEntryOnly ==
  /\ [][\A p \in Procs :
          /\ CommitStep(p)
          /\ entries[Top(p).entry].err
          /\ cache[TopKey(p)] # 0
          /\ cache[TopKey(p)] # Top(p).entry
          => cache'[TopKey(p)] # 0]_vars
  /\ [][\A p \in Procs :
          CommitStep(p) /\ entries[Top(p).entry].err
            => \A k \in Downstream(TopKey(p)) :
                 /\ cache'[k] # 0
                 /\ entries'[cache'[k]].done /\ ~entries'[cache'[k]].err
                 => cache'[TopKey(p)] # 0]_vars

\* ---------------------------------------------------------------------------
\* C35
\* ---------------------------------------------------------------------------

\* C35: Album.loading is set exactly while some caller of Load is between the
\* guard and its return. The return of a run clears it whatever the run
\* returns (nil after a publication or a not-modified answer, or an error);
\* a call turned away with the busy error finds the flag set, leaves it set,
\* and is turned away only while another caller's run is in progress.
C35_Flag ==
  /\ [](loading <=> \E l \in Loaders : InLoad(l))
  /\ [][\A l \in Loaders :
          ld[l].pc = "return" /\ ld'[l].pc = "idle"
            => ~loading' /\ ld'[l].res \in {"nil"} \cup Failures]_vars
  /\ [][\A l \in Loaders :
          GuardStep(l) /\ ld'[l].res = "busy"
            => /\ loading /\ loading'
               /\ \E m \in Loaders \ {l} : InLoad(m) /\ ld'[m] = ld[m]]_vars

\* One caller was turned away with the busy error, the run that was in
\* progress then has returned an error, and the flag is clear again.
C35_Witness ==
  \E l, m \in Loaders :
    /\ ld[l].pc = "idle" /\ ld[l].res = "busy"
    /\ ld[m].pc = "idle" /\ ld[m].res \in Failures
    /\ ~loading

\* ---------------------------------------------------------------------------
\* C36
\* ---------------------------------------------------------------------------

\* The non-negative Duration a is at least the non-negative Duration b.
RECURSIVE AtLeastFrom(_, _, _)
AtLeastFrom(a, b, i) ==
  IF i = 0 THEN TRUE
  ELSE IF a[i] # b[i] THEN a[i] > b[i]
  ELSE AtLeastFrom(a, b, i - 1)

\* C36: whatever the number of failed runs in a row, the Duration the loop
\* of Monitor sleeps for is positive and at least the configured interval.
C36_AtLeastInterval ==
  mon.pc \in {"sleep", "call"}
    => Positive(mon.c) /\ AtLeastFrom(mon.c, mon.interval, 4)

\* ---------------------------------------------------------------------------
\* Cache.Invalidate, call by call
\* ---------------------------------------------------------------------------

\* The calls of invalidate and invalidateDependents that Invalidate makes are
\* frames on the stack of the goroutine, above the frame of Invalidate, and
\* each test, each iteration of a range and each return is a step. A key may
\* declare any keys as its Dependencies(): itself, or keys that depend on it.

\* invalidate that leaves the entry in the map.
Deleted_Not(c, key) == c

\* delete(c.cache, key)
Deleted(c, key) == [c EXCEPT ![key] = 0]

\* The frame of a call of invalidate or of invalidateDependents; todo is what
\* the range over c.cache has yet to produce.
CallFrame(op, key, pc, todo) == [op |-> op, key |-> key, pc |-> pc, todo |-> todo]

\* return
Pop(p) == [stack EXCEPT ![p] = SubSeq(@, 1, Len(@) - 1)]

\* The keys any declaration of dependencies is played with, all in the map
\* or not, and the goroutines calling Invalidate.
Tangles ==
  {[keys |-> Keys, procs |-> {"p1", "p2"}, deps |-> d,
    names |-> {}, first |-> {}, ops |-> {},
    loaders |-> {}, workers |-> <<>>,
    readers |-> {}, reads |-> {}, asks |-> {}] : d \in [Keys -> SUBSET Keys]}

\* A cache that holds the fetched bytes of any of the keys.
CascadeInit ==
  /\ world \in Tangles
  /\ fetchers = Types
  /\ mon = NoMon
  /\ NewAlbum
  /\ remote = [hash |-> 1, dir |-> TRUE, files |-> [n \in Names |-> NoFile]]
  /\ \E S \in SUBSET Keys :
       /\ cache = [k \in Keys |->
                     IF k \in S THEN CHOOSE i \in 1 .. Len(KeyOrder) : KeyOrder[i] = k ELSE 0]
       /\ entries = [e \in Ids |->
                       IF e <= Len(KeyOrder) /\ KeyOrder[e] \in S
                       THEN [Free EXCEPT !.key = KeyOrder[e], !.done = TRUE, !.bytes = e]
                       ELSE Free]
  /\ cacheSize = Resident
  /\ cacheLock = ""
  /\ stack = [p \in Procs |-> <<>>]
  /\ ret = [p \in Procs |-> NoRet]
  /\ good = [k \in Keys |-> 0]

\* return c.invalidate(key): the call
CascadeCall(p) ==
  /\ At(p, "Invalidate", "invalidate")
  /\ cacheLock = p
  /\ stack' = Push(p, [Top(p) EXCEPT !.pc = "unlock"],
                   CallFrame("invalidate", Top(p).key, "test", {}))
  /\ UNCHANGED <<world, fetchers, mon, cache, entries, cacheSize, cacheLock, ret, good,
                 albumVars>>

\* if entry, ok := c.cache[key]; ok { c.cacheSize.Add(-len); delete(c.cache,
\* key); c.invalidateDependents(key): the call, and the start of its range
\* over the map as it is now } else return false
CascadeTest(p) ==
  /\ At(p, "invalidate", "test")
  /\ LET K == Top(p).key
     IN IF cache[K] # 0
        THEN /\ cacheSize' = cacheSize - Len8(entries[cache[K]].bytes)
             /\ cache' = Deleted(cache, K)
             /\ stack' = Push(p, [Top(p) EXCEPT !.pc = "return"],
                              CallFrame("invalidateDependents", K, "range",
                                        {k \in Keys : cache'[k] # 0}))
             /\ ret' = [ret EXCEPT ![p].removed = @ \cup {K}]
        ELSE /\ stack' = Pop(p)
             /\ UNCHANGED <<cache, cacheSize, ret>>
  /\ UNCHANGED <<world, fetchers, mon, entries, cacheLock, good, albumVars>>

\* for k := range c.cache: the next key, in any order, of those the range
\* has not produced and that are still in the map; for dep := range
\* k.Dependencies() { if dep == key { c.invalidate(k) } }; or the end of the
\* range and the return
CascadeRange(p) ==
  /\ At(p, "invalidateDependents", "range")
  /\ LET live == {k \in Top(p).todo : cache[k] # 0}
     IN IF live = {}
        THEN stack' = Pop(p)
        ELSE \E k \in live :
               stack' = IF Top(p).key \in deps[k]
                        THEN Push(p, [Top(p) EXCEPT !.todo = live \ {k}],
                                  CallFrame("invalidate", k, "test", {}))
                        ELSE SetTop(p, [Top(p) EXCEPT !.todo = live \ {k}])
  /\ UNCHANGED <<world, fetchers, mon, cache, entries, cacheSize, cacheLock, ret, good,
                 albumVars>>

\* return true
CascadeReturn(p) ==
  /\ At(p, "invalidate", "return")
  /\ stack' = Pop(p)
  /\ UNCHANGED <<world, fetchers, mon, cache, entries, cacheSize, cacheLock, ret, good,
                 albumVars>>

\* Invalidate returns, and the deferred c.cacheLock.Unlock()
CascadeUnlock(p) ==
  /\ At(p, "Invalidate", "unlock")
  /\ Len(stack[p]) = 1
  /\ cacheLock = p
  /\ cacheLock' = ""
  /\ ret' = [ret EXCEPT ![p] = [@ EXCEPT !.op = "Invalidate", !.key = Top(p).key]]
  /\ stack' = Pop(p)
  /\ UNCHANGED <<world, fetchers, mon, cache, entries, cacheSize, good, albumVars>>

\* What goroutine p does once it holds the lock.
Cascades(p) ==
  \/ CascadeCall(p)
  \/ CascadeTest(p)
  \/ CascadeRange(p)
  \/ CascadeReturn(p)
  \/ CascadeUnlock(p)

\* Each goroutine calls Invalidate once: p1 on any key, p2 on "A" (the
\* declarations and the caches being all there are, every pair of keys is
\* played up to the names of the keys).
CascadeNext ==
  \/ \E k \in Keys : ret["p1"].op = "none" /\ CallInvalidate("p1", k)
  \/ ret["p2"].op = "none" /\ CallInvalidate("p2", "A")
  \/ \E p \in Procs : InvalidateLock(p)
  \/ \E p \in Procs : Cascades(p)

\* A goroutine that can take a step takes one; the lock, free again and
\* again, is not refused for ever to a goroutine that waits for it.
CascadeFair ==
  \A p \in {"p1", "p2"} : SF_vars(InvalidateLock(p)) /\ WF_vars(Cascades(p))

CascadeSpec == CascadeInit /\ [][CascadeNext]_vars /\ CascadeFair

\* ---------------------------------------------------------------------------
\* C37
\* ---------------------------------------------------------------------------

\* C37: whatever the keys in the map and whatever they declare as their
\* dependencies (themselves and cycles included), a call of Invalidate
\* returns, and it gives the lock back as it returns: nobody holds the lock
\* outside Invalidate. The calls it makes are never nested deeper than one
\* invalidate and one invalidateDependents per key; an entry leaves the map
\* only in the test of an invalidate of the lock holder on its key, with its
\* length taken off the size counter in that step; no entry enters the map
\* and the counter changes in no other step, so that an entry that was in
\* the map when Invalidate was called is removed at most once and the
\* counter is the resident size whenever the lock is free.
C37_Terminates ==
  /\ \A p \in {"p1", "p2"} : []<>(~Active(p))
  /\ [](\A p \in Procs : cacheLock = p => Active(p) /\ stack[p][1].op = "Invalidate")
  /\ [][\A p \in Procs : Active(p) /\ ~Active(p)' => cacheLock = p /\ cacheLock' = ""]_vars
  /\ [](\A p \in Procs : Len(stack[p]) <= 2 * Cardinality(Keys) + 2)
  /\ [][\A k \in Keys :
          cache'[k] # cache[k]
            => /\ cache[k] # 0 /\ cache'[k] = 0
               /\ \A j \in Keys \ {k} : cache'[j] = cache[j]
               /\ cacheLock # "" /\ At(cacheLock, "invalidate", "test")
               /\ Top(cacheLock).key = k
               /\ k \notin ret[cacheLock].removed
               /\ cacheSize' = cacheSize - Len8(entries[cache[k]].bytes)]_vars
  /\ [][cacheSize' # cacheSize => \E k \in Keys : cache[k] # 0 /\ cache'[k] = 0]_vars
  /\ [](cacheLock = "" => cacheSize = Resident)

\* The three keys were in the map, A declaring itself and C, B declaring A
\* and C declaring B; Invalidate(A) has removed the three and returned, and
\* the other goroutine, which was waiting for the lock, has had it and has
\* returned as well.
C37_Witness ==
  /\ deps["A"] = {"A", "C"} /\ deps["B"] = {"A"} /\ deps["C"] = {"B"}
  /\ ret["p1"].op = "Invalidate" /\ ret["p1"].key = "A" /\ ret["p1"].removed = Keys
  /\ ret["p2"].op = "Invalidate" /\ ret["p2"].removed = {}
  /\ cacheLock = ""

====
